---- MODULE Spec2Model ----
(***************************************************************************)
(* Model of the voice_command pipeline.                                    *)
(*                                                                         *)
(* Part I models the orchestrator in both of its surfaces: the signal      *)
(* based QtVoiceAssistant (src/src/qt_voice_assistant.cpp), whose producer  *)
(* is a QTimer slot on the thread that also issues the API calls, and the   *)
(* callback based VoiceAssistant (src/src/voice_assistant.cpp), whose       *)
(* producer is a dedicated audio thread.  The processing worker is a        *)
(* thread of its own in both.  One controlling thread issues the API calls  *)
(* (Init, Start, Stop, Shutdown, SetForceNluStrategy, startCapture,         *)
(* stopCapture); in the Qt surface the same thread runs OnAudioTimer.       *)
(*                                                                         *)
(* Part II models the command dispatcher                                    *)
(* (src/src/command/dispatcher/commanddispatcher.cpp) and the ParamValue    *)
(* parsers it relies on (src/src/command/context/commandcontext.cpp).       *)
(*                                                                         *)
(* Part III models the circular buffer of the capture backends             *)
(* (src/src/audio_capture/sdl/sdl_audio_capture.cpp and                     *)
(* src/src/audio_capture/qt/qt_audio_capture.cpp).                          *)
(*                                                                         *)
(* Part IV models the rule-based NLU engine                                 *)
(* (src/src/command/nlu/rule_based_nlu_engine.cpp) and the CommandTester    *)
(* (src/src/testing/command_tester.cpp).                                    *)
(*                                                                         *)
(* Part V models the energy-based voice activity detector                  *)
(* (src/src/audio_capture/vad/simple_vad.cpp).                             *)
(*                                                                         *)
(* The specifications: Spec and FairSpec (the orchestrator), StrategySpec  *)
(* (the orchestrator with every strategy setting), RunSpec with            *)
(* WorkerFairSpec and TimerFairSpec (the started Qt assistant, for the     *)
(* progress properties), DispatchSpec (one command registered and          *)
(* dispatched), RegistrySpec (registration against a reader of the         *)
(* registry), ConcurrentSpec (Dispatch on one thread, Register and         *)
(* Unregister on another), CaptureSpec (a capture backend), PttSpec        *)
(* (push-to-talk with the capture buffer and the clock), NluSpec (the      *)
(* NLU engine and the tester) and VadSpec (the voice activity detector).   *)
(***************************************************************************)
EXTENDS Integers, Sequences, FiniteSets, TLC

(***************************************************************************)
(* Bounds of the model.                                                    *)
(***************************************************************************)
\* Value given to config.max_queue_depth (the program's default is 10).
MaxQueueDepth == 2
\* Number of audio windows the producers may create in one behaviour.
MaxWindows == 4

\* Value given to config.wake_word_timeout_ms, counted in poll intervals (the
\* program's defaults are 5000 ms and 100 ms).
WakeWordTimeout == 2
\* The number of entries the registry allocates in a behaviour.
MaxEntries == 3
\* The largest block of samples the capture device delivers at once (larger
\* than every capacity of the model).
MaxBlock == 5
\* The number of samples the capture device delivers in a behaviour.
MaxSamples == 5
\* The longest duration GetAudio is called with, in milliseconds.
MaxDuration == 3
\* Value given to config.poll_interval_ms (the program's default is 100).
PollIntervalMs == 1

VARIABLES
    \* ---- orchestrator fields
    surface,           \* the class instantiated: "qt" QtVoiceAssistant, "std" VoiceAssistant
    config,            \* config_
    initialized,       \* initialized_
    running,           \* running_
    nlu_engine,        \* nlu_engine_ != nullptr
    strategy,          \* strategy_: "none" | "guided" | "nlu"
    has_parameterized, \* registry_->HasParameterizedCommands()
    audio_running,     \* audio_engine_ capture started
    timer_active,      \* audio_timer_ active (Qt surface)
    listening_state,   \* listening_state_
    wake_elapsed,      \* steady_clock::now() - wake_timeout_start_, in poll intervals
    audio_queue,       \* audio_queue_: FIFO of window ids
    \* ---- threads
    main_pc,           \* position of the controlling thread inside a blocking call
    main_call,         \* the API call the controlling thread is inside
    worker_pc,         \* position of the processing thread
    worker_item,       \* window the processing thread holds (0: none)
    audio_pc,          \* position of the audio thread (callback surface)
    strategy_destroyed,\* the strategy object the worker's Recognize call runs on has
                       \* been destroyed
    \* ---- observation of the last step
    next_id,           \* id of the next window a producer creates
    last_taken,        \* the window the worker dequeued last (0: none yet)
    last_op,           \* operation that took the last step
    ret,               \* its return value: "true" | "false" | "void"
    emitted,           \* notifications emitted by the last step, in order
    enq,               \* window the last step handed to the queue (0: none)
    tick,              \* the locals of the timer tick, if the last step was one
    capture_open,      \* captureStarted has been emitted and no captureEnded since
    \* ---- registry and dispatcher
    commands,          \* CommandRegistry::commands_: name -> descriptor
    dispatch_pc,       \* "idle" | "ready": a Dispatch call is pending | "done"
    dispatch_name,     \* Dispatch's command_name
    dispatch_context,  \* Dispatch's context: the params, name -> raw value
    dispatch_result,   \* the CommandResult Dispatch returned ("none" before)
    executed,          \* number of times Dispatch called the handler's Execute
    handler_context,   \* the params of the context Execute was called with
    handler_returned,  \* the CommandResult Execute returned ("none": not called)
    dispatch_locals,   \* the locals of a Dispatch call that runs beside the registrar
    \* ---- registry entries and a thread that iterates over them
    handlers,          \* Entry::command of each registered name (a handler's identity)
    entry_node,        \* the map node holding each registered name's Entry
    next_node,         \* the node the next insertion allocates
    reader_pc,         \* "idle" | "holding": GetAllDescriptors has returned | "done"
    reader_ptrs,       \* the vector GetAllDescriptors returned: pointers into nodes
    reader_read,       \* the descriptors the thread read through reader_ptrs
    reg_arg,           \* the name the last Register or Unregister was called with
    \* ---- capture backend
    backend,           \* the class instantiated: "sdl" SdlAudioCapture, "qt" QtAudioCapture
    device_open,       \* device_id_ != 0 (SDL), audio_source_ != nullptr (Qt)
    sample_rate,       \* sample_rate_
    buffer_duration_ms,\* buffer_duration_ms_
    audio_buffer,      \* audio_buffer_: index 0..size-1 -> sample
    buffer_pos,        \* buffer_pos_: the write index
    buffer_len,        \* buffer_len_
    capture_running,   \* running_
    written,           \* the samples the device delivered to a running capture since
                       \* Init or the last Clear, in order
    next_sample,       \* the value of the next sample the device delivers
    samples,           \* the out-parameter of the last GetAudio
    get_duration,      \* the duration_ms the last GetAudio was called with
    block_len,         \* the number of samples in the last block the device delivered
    \* ---- time
    now,               \* std::chrono::steady_clock::now(), in milliseconds
    capture_start_time, \* capture_start_time_
    \* ---- rule-based NLU engine and CommandTester
    nlu_transcript,    \* Process: the transcript argument
    nlu_schemas,       \* Process: the schemas argument, a sequence of command names
    min_confidence,    \* RuleBasedNluEngine::min_confidence_, a fraction <<n, d>>
    intent_match,      \* Process: what MatchIntent returned
    nlu_result,        \* what Process returned
    nlu_pc,            \* "idle", "returned", or "looping" while a call has not returned
    tester_initialized,    \* CommandTester::initialized_
    tester_min_confidence, \* CommandTester::min_confidence_, a fraction <<n, d>>
    test_result,       \* what ProcessText returned
    \* ---- voice activity detector
    vad_config,        \* SimpleVad::config_
    vad_input,         \* Detect: the caller's samples
    vad_result         \* what Detect returned

orch_vars == <<surface, config, initialized, running, nlu_engine, strategy, has_parameterized,
               audio_running, timer_active, listening_state, wake_elapsed, audio_queue>>
thread_vars == <<main_pc, main_call, worker_pc, worker_item, audio_pc, strategy_destroyed>>
obs_vars == <<next_id, last_taken, last_op, ret, emitted, enq, tick, capture_open>>
disp_vars == <<commands, dispatch_pc, dispatch_name, dispatch_context, dispatch_result,
               executed, handler_context, handler_returned, dispatch_locals>>
reg_vars == <<handlers, entry_node, next_node, reader_pc, reader_ptrs, reader_read, reg_arg>>
cap_vars == <<backend, device_open, sample_rate, buffer_duration_ms, audio_buffer, buffer_pos,
              buffer_len, capture_running, written, next_sample, samples, get_duration, block_len>>
time_vars == <<now, capture_start_time>>
nlu_vars == <<nlu_transcript, nlu_schemas, min_confidence, intent_match, nlu_result, nlu_pc,
              tester_initialized, tester_min_confidence, test_result>>
vad_vars == <<vad_config, vad_input, vad_result>>
vars == <<orch_vars, thread_vars, obs_vars, disp_vars, reg_vars, cap_vars, time_vars, nlu_vars,
          vad_vars>>

(***************************************************************************)
(* Types.                                                                  *)
(***************************************************************************)
ListeningMode == {"kContinuous", "kWakeWord", "kPushToTalk"}
ListeningState == {"kIdle", "kListening", "kWakeWordActive", "kCapturing"}
CommandResult == {"kSuccess", "kFailure", "kInvalidParams", "kNotHandled"}
Surfaces == {"qt", "std"}

MkConfig(m, w) ==
    [listening_mode |-> m, wake_word |-> w,
     max_queue_depth |-> MaxQueueDepth, wake_word_confidence |-> <<1, 2>>,
     auto_select_strategy |-> TRUE, force_nlu_strategy |-> FALSE]

\* The configurations Init is called with.  VoiceAssistantConfig has no
\* listening mode (the audio thread always polls as the Qt surface does in
\* kContinuous), and wake_word is read in kWakeWord mode only.
Configs(s) ==
    IF s = "std" THEN {MkConfig("kContinuous", "")}
    ELSE {MkConfig(m, "") : m \in ListeningMode} \cup {MkConfig("kWakeWord", "hey")}

\* The default-constructed configuration.
DefaultConfig == MkConfig("kContinuous", "")

(***************************************************************************)
(* Helpers shared by the handlers.                                         *)
(***************************************************************************)
\* SetListeningState: the notification emitted by an exchange old -> new.
SetListeningState(old, new) ==
    IF old # new THEN << <<"listeningStateChanged", old, new>> >> ELSE << >>

\* Mutants of QueueAudio.
QueueAudio_OffByOne(q, w, depth) ==
    IF Len(q) <= depth THEN Append(q, w) ELSE q

QueueAudio_DropOldest(q, w, depth) ==
    IF Len(q) < depth THEN Append(q, w)
    ELSE IF q = << >> THEN q ELSE Append(Tail(q), w)

QueueAudio_PushFront(q, w, depth) ==
    IF Len(q) < depth THEN <<w>> \o q ELSE q

\* QueueAudio: the queue after a window arrives (drop the arrival when full).
QueueAudio(q, w, depth) ==
    IF Len(q) < depth THEN Append(q, w) ELSE q

\* QueueAudio: the notifications emitted while a window is queued or dropped;
\* on a full queue the Qt surface writes a qWarning line and the callback
\* surface does nothing.
QueueAudio_Emitted(q, depth) == << >>

\* Mutant of Notify.
Notify_Lost(pc) == pc

\* queue_cv_.notify_one / notify_all: a worker blocked in the wait goes on to
\* reacquire the mutex and re-evaluate the predicate; with no waiter the
\* notification has no effect.
Notify(pc) == IF pc = "blocked" THEN "lock" ELSE pc

\* queue_mutex_ is held across steps only by a worker that has evaluated the
\* wait predicate to false and has not yet blocked.
MutexFree == worker_pc # "prewait"

\* Mutant of SelectStrategy.
SelectStrategy_IgnoreAuto(cfg, nlu, has_param) ==
    IF (cfg.force_nlu_strategy \/ has_param) /\ nlu THEN "nlu" ELSE "guided"

\* SelectStrategy on an initialised assistant.
SelectStrategy(cfg, nlu, has_param) ==
    LET use_nlu == IF ~cfg.force_nlu_strategy /\ cfg.auto_select_strategy
                   THEN has_param ELSE cfg.force_nlu_strategy
    IN IF use_nlu /\ nlu THEN "nlu" ELSE "guided"

\* What GuidedMatch returns to the timer tick: success and best_score, a
\* fraction <<numerator, denominator>>.
NoMatch == [success |-> FALSE, best_score |-> <<0, 1>>]

\* The locals of a timer tick: vad_result.speech_ended where DetectSpeech
\* was called, elapsed where the clock was read (in poll intervals), match
\* where GuidedMatch was called.
TickLocals(ended, elapsed, match) == [ended |-> ended, elapsed |-> elapsed, match |-> match]

NoTick == TickLocals(FALSE, 0, NoMatch)

\* capture_open after a step that emitted sigs.
RECURSIVE CaptureOpen(_, _)
CaptureOpen(open, sigs) ==
    IF sigs = << >> THEN open
    ELSE CaptureOpen(IF Head(sigs) = <<"captureStarted">> THEN TRUE
                     ELSE IF Head(sigs) = <<"captureEnded">> THEN FALSE
                     ELSE open,
                     Tail(sigs))

ObsTick(op, r, sigs, w, locals) ==
    /\ last_op' = op
    /\ ret' = r
    /\ emitted' = sigs
    /\ enq' = w
    /\ tick' = locals
    /\ capture_open' = CaptureOpen(capture_open, sigs)
    /\ UNCHANGED <<disp_vars, reg_vars, cap_vars, time_vars, nlu_vars, vad_vars>>

Obs(op, r, sigs, w) == ObsTick(op, r, sigs, w, NoTick)

(***************************************************************************)
(* State after construction.                                               *)
(***************************************************************************)
OrchInit(surfaces) ==
    /\ surface \in surfaces
    /\ config = DefaultConfig
    /\ initialized = FALSE
    /\ running = FALSE
    /\ nlu_engine = FALSE
    /\ strategy = "none"
    /\ has_parameterized = FALSE
    /\ audio_running = FALSE
    /\ timer_active = FALSE
    /\ listening_state = "kIdle"
    /\ wake_elapsed = 0
    /\ audio_queue = << >>
    /\ main_pc = "idle"
    /\ main_call = "none"
    /\ worker_pc = "none"
    /\ worker_item = 0
    /\ audio_pc = "none"
    /\ strategy_destroyed = FALSE
    /\ next_id = 1
    /\ last_taken = 0
    /\ last_op = "construct"
    /\ ret = "void"
    /\ emitted = << >>
    /\ enq = 0
    /\ tick = NoTick
    /\ capture_open = FALSE

\* The locals of Dispatch: its position, command_name, and the pointers
\* command and descriptor as the map nodes they point into (0: nullptr or
\* not yet assigned).
DispatchLocals(pc, name, command, descriptor) ==
    [pc |-> pc, command_name |-> name, command |-> command, descriptor |-> descriptor]

NoDispatch == DispatchLocals("idle", "", 0, 0)

\* No command registered and no Dispatch call made.
DispIdle ==
    /\ commands = << >>
    /\ dispatch_pc = "idle"
    /\ dispatch_name = ""
    /\ dispatch_context = << >>
    /\ dispatch_result = "none"
    /\ executed = 0
    /\ handler_context = << >>
    /\ handler_returned = "none"
    /\ dispatch_locals = NoDispatch

\* No entry allocated, and no thread iterating.
RegIdle ==
    /\ handlers = << >>
    /\ entry_node = << >>
    /\ next_node = 1
    /\ reader_pc = "idle"
    /\ reader_ptrs = {}
    /\ reader_read = {}
    /\ reg_arg = ""

\* NluResult and TestResult as default-constructed; a confidence is a
\* fraction <<numerator, denominator>>.
DefaultNluResult ==
    [success |-> FALSE, command_name |-> "", confidence |-> <<0, 1>>,
     extracted_params |-> << >>, error_message |-> ""]

DefaultTestResult ==
    [recognized |-> FALSE, command_name |-> "", confidence |-> <<0, 1>>, params |-> << >>,
     execution_result |-> "kNotHandled", raw_transcript |-> << >>, error |-> ""]

\* IntentMatch as default-constructed: no descriptor, confidence 0.
DefaultIntentMatch ==
    [descriptor |-> "", confidence |-> <<0, 1>>, matched_trigger |-> << >>]

\* The NLU engine and the tester after construction: min_confidence_ is 0.5
\* in both, and no call has been made.
NluIdle ==
    /\ nlu_transcript = << >>
    /\ nlu_schemas = << >>
    /\ min_confidence = <<1, 2>>
    /\ intent_match = DefaultIntentMatch
    /\ nlu_result = DefaultNluResult
    /\ nlu_pc = "idle"
    /\ tester_initialized = FALSE
    /\ tester_min_confidence = <<1, 2>>
    /\ test_result = DefaultTestResult

\* VadConfig and VadResult as default-constructed, with the sample rate in
\* samples per second and the window in milliseconds; energy_threshold is
\* the fraction for 0.6f and the energies are fractions.
DefaultVadConfig ==
    [window_ms |-> 1000, energy_threshold |-> <<3, 5>>, freq_threshold |-> 100,
     sample_rate |-> 16000]

DefaultVadResult ==
    [speech_ended |-> FALSE, energy_all |-> <<0, 1>>, energy_last |-> <<0, 1>>]

\* The detector after construction, and no Detect call made.
VadIdle ==
    /\ vad_config = DefaultVadConfig
    /\ vad_input = << >>
    /\ vad_result = DefaultVadResult

\* The capture object after construction: no device, an empty buffer.
CapIdle(backends) ==
    /\ backend \in backends
    /\ device_open = FALSE
    /\ sample_rate = 0
    /\ buffer_duration_ms = 0
    /\ audio_buffer = << >>
    /\ buffer_pos = 0
    /\ buffer_len = 0
    /\ capture_running = FALSE
    /\ written = << >>
    /\ next_sample = 1
    /\ samples = << >>
    /\ get_duration = 0
    /\ block_len = 0
    /\ now = 0
    /\ capture_start_time = 0

Init == OrchInit(Surfaces) /\ DispIdle /\ RegIdle /\ CapIdle({"sdl"}) /\ NluIdle /\ VadIdle

(***************************************************************************)
(* API calls, issued by the controlling thread.                            *)
(***************************************************************************)
\* Init(config, nlu_engine); ok: the audio, ASR and NLU engines all initialise.
InitCall(cfg, nlu, ok) ==
    /\ main_pc = "idle"
    /\ \/ /\ initialized
          /\ Obs("Init", "false", << >>, 0)
          /\ UNCHANGED <<orch_vars, thread_vars, next_id, last_taken>>
       \/ /\ ~initialized
          /\ config' = cfg
          /\ nlu_engine' = nlu
          /\ initialized' = ok
          /\ Obs("Init", IF ok THEN "true" ELSE "false", << >>, 0)
          /\ UNCHANGED <<surface, running, strategy, has_parameterized, audio_running,
                         timer_active, listening_state, wake_elapsed, audio_queue,
                         thread_vars, next_id, last_taken>>

\* GetRegistry()->Register / Unregister, seen through HasParameterizedCommands.
RegistryChange(has_param) ==
    /\ main_pc = "idle"
    /\ has_parameterized' = has_param
    /\ Obs("Registry", "void", << >>, 0)
    /\ UNCHANGED <<surface, config, initialized, running, nlu_engine, strategy,
                   audio_running, timer_active, listening_state, wake_elapsed,
                   audio_queue, thread_vars, next_id, last_taken>>

\* Mutant of Start_Rejected.
Start_Rejected_InitOnly == ~initialized

\* Start: if (!initialized_ || running_) return false.
Start_Rejected == ~initialized \/ running

\* Mutants of InitialListeningState.
InitialListeningState_AlwaysIdle(mode) == "kIdle"

InitialListeningState_AlwaysListening(mode) == "kListening"

\* Start: the listening state the switch on config_.listening_mode sets.
InitialListeningState(mode) ==
    IF mode = "kPushToTalk" THEN "kIdle" ELSE "kListening"

\* Mutant of WakeWordMissing.
WakeWordMissing_Never(cfg) == FALSE

\* Start: kWakeWord mode with an empty wake word, which makes Start undo what
\* it has done and return false.
WakeWordMissing(cfg) == cfg.listening_mode = "kWakeWord" /\ cfg.wake_word = ""

\* QtVoiceAssistant::Start; audio_ok: audio_engine_->Start() succeeds.
Start(audio_ok) ==
    /\ main_pc = "idle"
    /\ surface = "qt"
    /\ \/ /\ Start_Rejected
          /\ Obs("Start", "false", << >>, 0)
          /\ UNCHANGED <<orch_vars, thread_vars, next_id, last_taken>>
       \/ /\ ~Start_Rejected
          /\ strategy' = SelectStrategy(config, nlu_engine, has_parameterized)
          /\ \/ /\ ~audio_ok
                /\ Obs("Start", "false", << >>, 0)
                /\ UNCHANGED <<surface, config, initialized, running, nlu_engine,
                               has_parameterized, audio_running, timer_active,
                               listening_state, wake_elapsed, audio_queue,
                               thread_vars, next_id, last_taken>>
             \/ /\ audio_ok
                /\ WakeWordMissing(config)
                /\ audio_running' = FALSE
                /\ Obs("Start", "false", << >>, 0)
                /\ UNCHANGED <<surface, config, initialized, running, nlu_engine,
                               has_parameterized, timer_active, listening_state,
                               wake_elapsed, audio_queue, thread_vars, next_id, last_taken>>
             \/ /\ audio_ok
                /\ ~WakeWordMissing(config)
                /\ audio_running' = TRUE
                /\ running' = TRUE
                /\ listening_state' = InitialListeningState(config.listening_mode)
                /\ timer_active' = TRUE
                /\ worker_pc' = "top"
                /\ Obs("Start", "true", SetListeningState(listening_state, listening_state'), 0)
                /\ UNCHANGED <<surface, config, initialized, nlu_engine, has_parameterized,
                               wake_elapsed, audio_queue, main_pc, main_call, worker_item, strategy_destroyed,
                               audio_pc, next_id, last_taken>>

\* VoiceAssistant::Start.
VA_Start(audio_ok) ==
    /\ main_pc = "idle"
    /\ surface = "std"
    /\ \/ /\ Start_Rejected
          /\ Obs("Start", "false", << >>, 0)
          /\ UNCHANGED <<orch_vars, thread_vars, next_id, last_taken>>
       \/ /\ ~Start_Rejected
          /\ strategy' = SelectStrategy(config, nlu_engine, has_parameterized)
          /\ \/ /\ ~audio_ok
                /\ Obs("Start", "false", << >>, 0)
                /\ UNCHANGED <<surface, config, initialized, running, nlu_engine,
                               has_parameterized, audio_running, timer_active,
                               listening_state, wake_elapsed, audio_queue,
                               thread_vars, next_id, last_taken>>
             \/ /\ audio_ok
                /\ audio_running' = TRUE
                /\ running' = TRUE
                /\ audio_pc' = "loop"
                /\ worker_pc' = "top"
                /\ Obs("Start", "true", << >>, 0)
                /\ UNCHANGED <<surface, config, initialized, nlu_engine, has_parameterized,
                               timer_active, listening_state, wake_elapsed, audio_queue,
                               main_pc, main_call, worker_item, strategy_destroyed, next_id, last_taken>>

\* Stop, up to and including running_ = false (and audio_timer_->stop() in the
\* Qt surface); call: the API call Stop runs in ("Stop" or "Shutdown").
Stop_Begin(call) ==
    /\ running' = FALSE
    /\ timer_active' = FALSE
    /\ main_pc' = "stop_notify"
    /\ main_call' = call
    /\ Obs("Stop_Begin", "void", << >>, 0)
    /\ UNCHANGED <<surface, config, initialized, nlu_engine, strategy, has_parameterized,
                   audio_running, listening_state, wake_elapsed, audio_queue,
                   worker_pc, worker_item, strategy_destroyed, audio_pc, next_id, last_taken>>

\* Stop called by the application.
Stop ==
    /\ main_pc = "idle"
    /\ \/ /\ ~running
          /\ Obs("Stop", "void", << >>, 0)
          /\ UNCHANGED <<orch_vars, thread_vars, next_id, last_taken>>
       \/ /\ running
          /\ Stop_Begin("Stop")

\* Stop: queue_cv_.notify_all().
Stop_Notify ==
    /\ main_pc = "stop_notify"
    /\ worker_pc' = Notify(worker_pc)
    /\ main_pc' = "stop_join"
    /\ Obs("Stop_Notify", "void", << >>, 0)
    /\ UNCHANGED <<orch_vars, main_call, worker_item, strategy_destroyed, audio_pc, next_id, last_taken>>

\* Mutants of Stop_Release.
Stop_Release_KeepQueue(q) == q

\* Stop: the queue after "while (!audio_queue_.empty()) audio_queue_.pop()".
Stop_Release(q) == << >>

\* Mutants of Stop_ListeningState.
Stop_ListeningState_Keep(s, ls) == ls

\* Stop: listening_state_ after the call (the callback surface has no such field).
Stop_ListeningState(s, ls) == IF s = "qt" THEN "kIdle" ELSE ls

\* Stop, from the joins to its return: the joins complete once the threads have
\* exited; then audio_engine_->Stop(), the queue is cleared and, in the Qt
\* surface, listening_state_ is assigned kIdle.  Inside Shutdown the components
\* are released after it.
Stop_Join ==
    /\ main_pc = "stop_join"
    /\ worker_pc = "done"
    /\ surface = "std" => audio_pc = "done"
    /\ worker_pc' = "none"
    /\ audio_pc' = "none"
    /\ audio_running' = FALSE
    /\ audio_queue' = Stop_Release(audio_queue)
    /\ listening_state' = Stop_ListeningState(surface, listening_state)
    /\ main_pc' = "idle"
    /\ main_call' = "none"
    /\ Obs(main_call, "void", << >>, 0)
    /\ \/ /\ main_call = "Stop"
          /\ UNCHANGED <<strategy, nlu_engine, initialized>>
       \/ /\ main_call = "Shutdown"
          /\ strategy' = "none"
          /\ nlu_engine' = FALSE
          /\ initialized' = FALSE
    /\ UNCHANGED <<surface, config, running, has_parameterized, timer_active, wake_elapsed,
                   worker_item, strategy_destroyed, next_id, last_taken>>

\* Shutdown.
Shutdown ==
    /\ main_pc = "idle"
    /\ \/ /\ ~initialized
          /\ Obs("Shutdown", "void", << >>, 0)
          /\ UNCHANGED <<orch_vars, thread_vars, next_id, last_taken>>
       \/ /\ initialized /\ running
          /\ Stop_Begin("Shutdown")
       \/ /\ initialized /\ ~running
          /\ strategy' = "none"
          /\ nlu_engine' = FALSE
          /\ audio_running' = FALSE
          /\ initialized' = FALSE
          /\ Obs("Shutdown", "void", << >>, 0)
          /\ UNCHANGED <<surface, config, running, has_parameterized, timer_active,
                         listening_state, wake_elapsed, audio_queue, thread_vars,
                         next_id, last_taken>>

\* The worker is inside strategy_->Recognize.
InRecognize == worker_pc \in {"recognize", "asr"}

\* Mutant of Assigned.
Assigned_KeepsObject(destroyed) == destroyed

\* strategy_ = std::make_unique<...>(...) in SelectStrategy: the assignment
\* destroys the object strategy_ owned, in every branch; destroyed tells
\* whether the object the worker is executing Recognize on is gone.
Assigned(destroyed) == destroyed \/ InRecognize

\* SetForceNluStrategy(use_nlu).
SetForceNluStrategy(use_nlu) ==
    /\ main_pc = "idle"
    /\ config' = [config EXCEPT !.force_nlu_strategy = use_nlu]
    /\ strategy' = IF running /\ initialized
                   THEN SelectStrategy(config', nlu_engine, has_parameterized)
                   ELSE strategy
    /\ strategy_destroyed' = IF running /\ initialized
                             THEN Assigned(strategy_destroyed)
                             ELSE strategy_destroyed
    /\ Obs("SetForceNluStrategy", "void", << >>, 0)
    /\ UNCHANGED <<surface, initialized, running, nlu_engine, has_parameterized,
                   audio_running, timer_active, listening_state, wake_elapsed,
                   audio_queue, main_pc, main_call, worker_pc, worker_item, audio_pc,
                   next_id, last_taken>>

\* Hands window next_id to the queue under queue_mutex_ and, if it was pushed,
\* notifies the condition variable.
Enqueue ==
    /\ MutexFree
    /\ next_id <= MaxWindows
    /\ audio_queue' = QueueAudio(audio_queue, next_id, config.max_queue_depth)
    /\ worker_pc' = IF audio_queue' # audio_queue THEN Notify(worker_pc) ELSE worker_pc
    /\ next_id' = next_id + 1

\* Mutants of startCapture_Rejected.
startCapture_Rejected_NoModeCheck ==
    ~running \/ listening_state # "kIdle"

startCapture_Rejected_NoStateCheck ==
    config.listening_mode # "kPushToTalk" \/ ~running

\* startCapture: the three early returns.
startCapture_Rejected ==
    \/ config.listening_mode # "kPushToTalk"
    \/ ~running
    \/ listening_state # "kIdle"

\* QtVoiceAssistant::startCapture.
startCapture ==
    /\ main_pc = "idle"
    /\ surface = "qt"
    /\ IF startCapture_Rejected
       THEN /\ Obs("startCapture", "false", << >>, 0)
            /\ UNCHANGED <<orch_vars, thread_vars, next_id, last_taken>>
       ELSE /\ listening_state' = "kCapturing"
            /\ Obs("startCapture", "true",
                   SetListeningState(listening_state, "kCapturing") \o << <<"captureStarted">> >>,
                   0)
            /\ UNCHANGED <<surface, config, initialized, running, nlu_engine, strategy,
                           has_parameterized, audio_running, timer_active, wake_elapsed,
                           audio_queue, thread_vars, next_id, last_taken>>

\* Mutant of stopCapture_Rejected.
stopCapture_Rejected_IdleOnly == listening_state = "kIdle"

\* stopCapture: the early return.
stopCapture_Rejected == listening_state # "kCapturing"

\* QtVoiceAssistant::stopCapture.
stopCapture ==
    /\ main_pc = "idle"
    /\ surface = "qt"
    /\ IF stopCapture_Rejected
       THEN /\ Obs("stopCapture", "false", << >>, 0)
            /\ UNCHANGED <<orch_vars, thread_vars, next_id, last_taken>>
       ELSE /\ Enqueue
            /\ listening_state' = "kIdle"
            /\ Obs("stopCapture", "true",
                   QueueAudio_Emitted(audio_queue, config.max_queue_depth)
                       \o SetListeningState(listening_state, "kIdle")
                       \o << <<"captureEnded">> >>,
                   next_id)
            /\ UNCHANGED <<surface, config, initialized, running, nlu_engine, strategy,
                           has_parameterized, audio_running, timer_active, wake_elapsed,
                           main_pc, main_call, worker_item, strategy_destroyed, audio_pc, last_taken>>

\* Mutant of EmitSpeechDetected.
EmitSpeechDetected_Silent == << >>

\* emit speechDetected(), the speech-detected callback: what a producer emits
\* when the VAD check reports that speech has ended, before it reads the
\* command window and hands it to the queue.
EmitSpeechDetected == << <<"speechDetected">> >>

(***************************************************************************)
(* The polling timer of the Qt surface.                                    *)
(***************************************************************************)
\* ended: DetectSpeech reports speech_ended on the samples read by this tick.
OnAudioTimer_Continuous(ended) ==
    \/ /\ ~ended
       /\ ObsTick("OnAudioTimer", "void", << >>, 0, TickLocals(ended, 0, NoMatch))
       /\ UNCHANGED <<orch_vars, thread_vars, next_id, last_taken>>
    \/ /\ ended
       /\ Enqueue
       /\ ObsTick("OnAudioTimer", "void",
                  EmitSpeechDetected \o QueueAudio_Emitted(audio_queue, config.max_queue_depth),
                  next_id, TickLocals(ended, 0, NoMatch))
       /\ UNCHANGED <<surface, config, initialized, running, nlu_engine, strategy,
                      has_parameterized, audio_running, timer_active, listening_state,
                      wake_elapsed, main_pc, main_call, worker_item, strategy_destroyed, audio_pc, last_taken>>

\* Mutants of TimedOut.
TimedOut_Never(elapsed) == FALSE

TimedOut_Late(elapsed) == elapsed > WakeWordTimeout + 2

\* elapsed > std::chrono::milliseconds(config_.wake_word_timeout_ms).
TimedOut(elapsed) == elapsed > WakeWordTimeout

\* ended as above; d: poll intervals gone by since the previous reading of the
\* clock.  In kListening with speech ended the tick enters GuidedMatch on the
\* ASR engine and goes on in OnAudioTimer_WakeMatch.
OnAudioTimer_WakeWord(ended, d) ==
    \/ /\ listening_state = "kListening" /\ ended
       /\ main_pc' = "wake_match"
       /\ ObsTick("OnAudioTimer", "void", << >>, 0, TickLocals(ended, 0, NoMatch))
       /\ UNCHANGED <<orch_vars, main_call, worker_pc, worker_item, strategy_destroyed, audio_pc, next_id, last_taken>>
    \/ /\ \/ listening_state = "kListening" /\ ~ended
          \/ listening_state \notin {"kListening", "kWakeWordActive"}
       /\ ObsTick("OnAudioTimer", "void", << >>, 0,
                  TickLocals(listening_state = "kListening" /\ ended, 0, NoMatch))
       /\ UNCHANGED <<orch_vars, thread_vars, next_id, last_taken>>
    \/ /\ listening_state = "kWakeWordActive"
       /\ LET elapsed == IF wake_elapsed + d > WakeWordTimeout
                         THEN WakeWordTimeout + 1 ELSE wake_elapsed + d
          IN \/ /\ TimedOut(elapsed)
                /\ listening_state' = "kListening"
                /\ wake_elapsed' = 0
                /\ ObsTick("OnAudioTimer", "void",
                           SetListeningState(listening_state, "kListening"), 0,
                           TickLocals(FALSE, elapsed, NoMatch))
                /\ UNCHANGED <<surface, config, initialized, running, nlu_engine, strategy,
                               has_parameterized, audio_running, timer_active, audio_queue,
                               thread_vars, next_id, last_taken>>
             \/ /\ ~TimedOut(elapsed)
                /\ ~ended
                /\ wake_elapsed' = elapsed
                /\ ObsTick("OnAudioTimer", "void", << >>, 0,
                           TickLocals(ended, elapsed, NoMatch))
                /\ UNCHANGED <<surface, config, initialized, running, nlu_engine, strategy,
                               has_parameterized, audio_running, timer_active,
                               listening_state, audio_queue, thread_vars, next_id, last_taken>>
             \/ /\ ~TimedOut(elapsed)
                /\ ended
                /\ Enqueue
                /\ listening_state' = "kListening"
                /\ wake_elapsed' = 0
                /\ ObsTick("OnAudioTimer", "void",
                           EmitSpeechDetected
                               \o QueueAudio_Emitted(audio_queue, config.max_queue_depth)
                               \o SetListeningState(listening_state, "kListening"),
                           next_id, TickLocals(ended, elapsed, NoMatch))
                /\ UNCHANGED <<surface, config, initialized, running, nlu_engine, strategy,
                               has_parameterized, audio_running, timer_active,
                               main_pc, main_call, worker_item, strategy_destroyed, audio_pc, last_taken>>

\* Mutant of WakeWordMatched.
WakeWordMatched_AnyScore(match, cfg) == match.success

\* match.success && match.best_score >= config_.wake_word_confidence.
WakeWordMatched(match, cfg) ==
    /\ match.success
    /\ match.best_score[1] * cfg.wake_word_confidence[2]
           >= cfg.wake_word_confidence[1] * match.best_score[2]

\* The results GuidedMatch returns to the tick: a failure, and successes
\* with a best_score below, at and above wake_word_confidence.
GuidedMatchResults ==
    {NoMatch} \cup {[success |-> TRUE, best_score |-> score] :
                        score \in {<<2, 5>>, <<1, 2>>, <<9, 10>>}}

\* The rest of a kListening tick, from the return of GuidedMatch with match.
OnAudioTimer_WakeMatch(match) ==
    /\ main_pc = "wake_match"
    /\ main_pc' = "idle"
    /\ \/ /\ WakeWordMatched(match, config)
          /\ listening_state' = "kWakeWordActive"
          /\ wake_elapsed' = 0
          /\ ObsTick("OnAudioTimer", "void",
                     << <<"wakeWordDetected">> >>
                         \o SetListeningState(listening_state, "kWakeWordActive"),
                     0, TickLocals(TRUE, 0, match))
       \/ /\ ~WakeWordMatched(match, config)
          /\ ObsTick("OnAudioTimer", "void", << >>, 0, TickLocals(TRUE, 0, match))
          /\ UNCHANGED <<listening_state, wake_elapsed>>
    /\ UNCHANGED <<surface, config, initialized, running, nlu_engine, strategy,
                   has_parameterized, audio_running, timer_active, audio_queue,
                   main_call, worker_pc, worker_item, strategy_destroyed, audio_pc, next_id, last_taken>>

OnAudioTimer_PushToTalk ==
    /\ ObsTick("OnAudioTimer", "void", << >>, 0, NoTick)
    /\ UNCHANGED <<orch_vars, thread_vars, next_id, last_taken>>

\* The timer slot; it runs on the controlling thread while the timer is active.
OnAudioTimer(ended, d) ==
    /\ main_pc = "idle"
    /\ surface = "qt"
    /\ timer_active
    /\ \/ /\ config.listening_mode = "kContinuous"
          /\ OnAudioTimer_Continuous(ended)
       \/ /\ config.listening_mode = "kWakeWord"
          /\ OnAudioTimer_WakeWord(ended, d)
       \/ /\ config.listening_mode = "kPushToTalk"
          /\ OnAudioTimer_PushToTalk

(***************************************************************************)
(* The processing thread.                                                  *)
(***************************************************************************)
\* Outcomes of strategy_->Recognize as ProcessAudio reads them: success, and
\* whether raw_transcript and error are non-empty.
RecognitionResults ==
    { [success |-> TRUE, raw_transcript |-> TRUE, error |-> FALSE] }
    \cup { [success |-> FALSE, raw_transcript |-> t, error |-> e] : t, e \in BOOLEAN }

\* ProcessingThreadFunc: while (running_).
Worker_Top ==
    /\ worker_pc = "top"
    /\ worker_pc' = IF running THEN "lock" ELSE "done"
    /\ Obs("Worker", "void", << >>, 0)
    /\ UNCHANGED <<orch_vars, main_pc, main_call, worker_item, strategy_destroyed, audio_pc, next_id, last_taken>>

\* ProcessingThreadFunc: with queue_mutex_ locked, the wait predicate is
\* evaluated.  If it is false the thread is about to block and still holds the
\* mutex.  If it is true the thread leaves the loop (stopped and queue empty)
\* or pops the front window, unlocks, and enters ProcessAudio.
Worker_Wait ==
    /\ worker_pc = "lock"
    /\ \/ /\ audio_queue = << >> /\ running
          /\ worker_pc' = "prewait"
          /\ UNCHANGED <<audio_queue, worker_item, strategy_destroyed, last_taken>>
       \/ /\ audio_queue = << >> /\ ~running
          /\ worker_pc' = "done"
          /\ UNCHANGED <<audio_queue, worker_item, strategy_destroyed, last_taken>>
       \/ /\ audio_queue # << >>
          /\ worker_item' = Head(audio_queue)
          /\ audio_queue' = Tail(audio_queue)
          /\ last_taken' = Head(audio_queue)
          /\ worker_pc' = IF strategy = "none" THEN "top" ELSE "recognize"
          /\ UNCHANGED strategy_destroyed
    /\ Obs("Worker", "void", << >>, 0)
    /\ UNCHANGED <<surface, config, initialized, running, nlu_engine, strategy,
                   has_parameterized, audio_running, timer_active, listening_state,
                   wake_elapsed, main_pc, main_call, audio_pc, next_id>>

\* queue_cv_.wait: the mutex is released and the thread blocks, atomically.
Worker_Block ==
    /\ worker_pc = "prewait"
    /\ worker_pc' = "blocked"
    /\ Obs("Worker", "void", << >>, 0)
    /\ UNCHANGED <<orch_vars, main_pc, main_call, worker_item, strategy_destroyed, audio_pc, next_id, last_taken>>

\* A spurious wakeup, which std::condition_variable::wait permits.
Worker_SpuriousWake ==
    /\ worker_pc = "blocked"
    /\ worker_pc' = "lock"
    /\ Obs("Worker", "void", << >>, 0)
    /\ UNCHANGED <<orch_vars, main_pc, main_call, worker_item, strategy_destroyed, audio_pc, next_id, last_taken>>

\* ProcessAudio: strategy_->Recognize up to its call of the ASR engine; a
\* strategy that finds its engine uninitialised or no phrase to match returns
\* an error without calling it.
Worker_Recognize ==
    /\ worker_pc = "recognize"
    /\ \/ /\ worker_pc' = "asr"
          /\ Obs("Worker", "void", << >>, 0)
          /\ UNCHANGED <<worker_item, strategy_destroyed>>
       \/ /\ worker_pc' = "top"
          /\ worker_item' = 0
          /\ strategy_destroyed' = FALSE
          /\ Obs("Worker", "void", << <<"errorOccurred">> >>, 0)
    /\ UNCHANGED <<orch_vars, main_pc, main_call, audio_pc, next_id, last_taken>>

\* The notifications ProcessAudio emits for a failed recognition r.
ProcessAudio_Failure(r) ==
    IF r.raw_transcript THEN << <<"unrecognizedSpeech">> >>
    ELSE IF r.error THEN << <<"errorOccurred">> >>
    ELSE << >>

\* ProcessAudio: the ASR call (Transcribe or GuidedMatch) returns and Recognize
\* returns r; a failure is reported, a success goes on to Dispatch.
Worker_AsrDone(r) ==
    /\ worker_pc = "asr"
    /\ strategy_destroyed' = FALSE
    /\ \/ /\ ~r.success
          /\ worker_pc' = "top"
          /\ worker_item' = 0
          /\ Obs("Worker", "void", ProcessAudio_Failure(r), 0)
       \/ /\ r.success
          /\ worker_pc' = "dispatch"
          /\ Obs("Worker", "void", << >>, 0)
          /\ UNCHANGED worker_item
    /\ UNCHANGED <<orch_vars, main_pc, main_call, audio_pc, next_id, last_taken>>

\* ProcessAudio: dispatcher_->Dispatch returns result and commandExecuted is
\* emitted with it.
Worker_DispatchDone(result) ==
    /\ worker_pc = "dispatch"
    /\ worker_pc' = "top"
    /\ worker_item' = 0
    /\ UNCHANGED strategy_destroyed
    /\ Obs("Worker", "void", << <<"commandExecuted", result>> >>, 0)
    /\ UNCHANGED <<orch_vars, main_pc, main_call, audio_pc, next_id, last_taken>>

(***************************************************************************)
(* The audio thread of the callback surface.                               *)
(***************************************************************************)
\* AudioThreadFunc: while (running_), then the sleep.
AudioThread_Loop ==
    /\ audio_pc = "loop"
    /\ audio_pc' = IF running THEN "sleep" ELSE "done"
    /\ Obs("AudioThread", "void", << >>, 0)
    /\ UNCHANGED <<orch_vars, main_pc, main_call, worker_pc, worker_item, strategy_destroyed, next_id, last_taken>>

\* AudioThreadFunc: after the sleep, running_ is read again; then the VAD
\* check, and on speech ended the speech-detected callback and the read of
\* the command window.
AudioThread_Poll(ended) ==
    /\ audio_pc = "sleep"
    /\ \/ /\ ~running
          /\ audio_pc' = "done"
          /\ Obs("AudioThread", "void", << >>, 0)
       \/ /\ running /\ ~ended
          /\ audio_pc' = "loop"
          /\ Obs("AudioThread", "void", << >>, 0)
       \/ /\ running /\ ended
          /\ next_id <= MaxWindows
          /\ audio_pc' = "enqueue"
          /\ Obs("AudioThread", "void", EmitSpeechDetected, 0)
    /\ UNCHANGED <<orch_vars, main_pc, main_call, worker_pc, worker_item, strategy_destroyed, next_id, last_taken>>

\* AudioThreadFunc: the window is queued under queue_mutex_.
AudioThread_Enqueue ==
    /\ audio_pc = "enqueue"
    /\ Enqueue
    /\ audio_pc' = "loop"
    /\ Obs("AudioThread", "void", QueueAudio_Emitted(audio_queue, config.max_queue_depth), next_id)
    /\ UNCHANGED <<surface, config, initialized, running, nlu_engine, strategy,
                   has_parameterized, audio_running, timer_active, listening_state,
                   wake_elapsed, main_pc, main_call, worker_item, strategy_destroyed, last_taken>>

(***************************************************************************)
(* The orchestrator's specification.                                       *)
(***************************************************************************)
Next ==
    \/ \E cfg \in Configs(surface), ok \in BOOLEAN : InitCall(cfg, TRUE, ok)
    \/ \E ok \in BOOLEAN : Start(ok)
    \/ \E ok \in BOOLEAN : VA_Start(ok)
    \/ Stop
    \/ Stop_Notify
    \/ Stop_Join
    \/ Shutdown
    \/ \E b \in BOOLEAN : SetForceNluStrategy(b)
    \/ startCapture
    \/ stopCapture
    \/ \E ended \in BOOLEAN, d \in 1..2 : OnAudioTimer(ended, d)
    \/ \E match \in GuidedMatchResults : OnAudioTimer_WakeMatch(match)
    \/ Worker_Top
    \/ Worker_Wait
    \/ Worker_Block
    \/ Worker_SpuriousWake
    \/ Worker_Recognize
    \/ \E r \in RecognitionResults : Worker_AsrDone(r)
    \/ \E result \in CommandResult : Worker_DispatchDone(result)
    \/ AudioThread_Loop
    \/ \E ended \in BOOLEAN : AudioThread_Poll(ended)
    \/ AudioThread_Enqueue

Spec == Init /\ [][Next]_vars

\* The scheduler runs every thread that can take a step, and a call that
\* blocks the controlling thread goes on once it can; API calls, timer ticks
\* and spurious wakeups are the environment's choice and need not happen.
Fairness ==
    /\ WF_vars(Stop_Notify)
    /\ WF_vars(Stop_Join)
    /\ WF_vars(\E match \in GuidedMatchResults : OnAudioTimer_WakeMatch(match))
    /\ WF_vars(Worker_Top)
    /\ WF_vars(Worker_Wait)
    /\ WF_vars(Worker_Block)
    /\ WF_vars(Worker_Recognize)
    /\ WF_vars(\E r \in RecognitionResults : Worker_AsrDone(r))
    /\ WF_vars(\E result \in CommandResult : Worker_DispatchDone(result))
    /\ WF_vars(AudioThread_Loop)
    /\ WF_vars(\E ended \in BOOLEAN : AudioThread_Poll(ended))
    /\ WF_vars(AudioThread_Enqueue)

FairSpec == Spec /\ Fairness

(***************************************************************************)
(* Part II: ParamValue, CommandContext and the command dispatcher.         *)
(*                                                                         *)
(* A std::string is a sequence of one-character strings.  A double is the  *)
(* integer number of its hundredths (1.5 is 150), which is exact for the   *)
(* values of the model: none has more than two fractional digits.          *)
(***************************************************************************)
ParamType == {"kString", "kInteger", "kDouble", "kBool", "kEnum"}

UpperChars == <<"A", "B", "C", "D", "E", "F", "G", "H", "I", "J", "K", "L", "M",
                "N", "O", "P", "Q", "R", "S", "T", "U", "V", "W", "X", "Y", "Z">>
LowerChars == <<"a", "b", "c", "d", "e", "f", "g", "h", "i", "j", "k", "l", "m",
                "n", "o", "p", "q", "r", "s", "t", "u", "v", "w", "x", "y", "z">>
Digits == <<"0", "1", "2", "3", "4", "5", "6", "7", "8", "9">>

\* std::tolower on one character.
ToLowerChar(c) ==
    IF \E i \in DOMAIN UpperChars : UpperChars[i] = c
    THEN LowerChars[CHOOSE i \in DOMAIN UpperChars : UpperChars[i] = c]
    ELSE c

ToLower(str) == [i \in DOMAIN str |-> ToLowerChar(str[i])]

EqualsIgnoreCase(a, b) == ToLower(a) = ToLower(b)

IsDigit(c) == \E i \in DOMAIN Digits : Digits[i] = c

DigitValue(c) == (CHOOSE i \in DOMAIN Digits : Digits[i] = c) - 1

\* The first index from i on at which s has no whitespace (Len(s)+1: none).
RECURSIVE SkipSpace(_, _)
SkipSpace(s, i) ==
    IF i <= Len(s) /\ s[i] = " " THEN SkipSpace(s, i + 1) ELSE i

\* The first index from i on at which s has no digit (Len(s)+1: none).
RECURSIVE DigitsEnd(_, _)
DigitsEnd(s, i) ==
    IF i <= Len(s) /\ IsDigit(s[i]) THEN DigitsEnd(s, i + 1) ELSE i

\* The number written by the digits s[i], ..., s[j-1].
RECURSIVE DigitsValue(_, _, _)
DigitsValue(s, i, j) ==
    IF j <= i THEN 0 ELSE (10 * DigitsValue(s, i, j - 1)) + DigitValue(s[j - 1])

INT_MAX == 2147483647

\* The index after an optional sign at i.
AfterSign(s, i) == IF i <= Len(s) /\ s[i] \in {"+", "-"} THEN i + 1 ELSE i

Negative(s, i) == i <= Len(s) /\ s[i] = "-"

\* std::stoi(s, &pos) in base 10: whitespace, an optional sign, digits.
\* ok is FALSE where it throws (no digits: invalid_argument; a value outside
\* int: out_of_range); pos is the number of characters it consumed.
stoi(s) ==
    LET i == SkipSpace(s, 1)
        j == AfterSign(s, i)
        k == DigitsEnd(s, j)
        magnitude == DigitsValue(s, j, k)
        value == IF Negative(s, i) THEN -magnitude ELSE magnitude
    IN  IF k = j \/ value > INT_MAX \/ value < -INT_MAX - 1
        THEN [ok |-> FALSE, value |-> 0, pos |-> 0]
        ELSE [ok |-> TRUE, value |-> value, pos |-> k - 1]

\* ParamValue::AsInt: ok is FALSE where it throws.
AsInt(raw_value) ==
    LET r == stoi(raw_value)
    IN  [ok |-> r.ok /\ r.pos = Len(raw_value), value |-> r.value]

\* std::stod(s, &pos) on decimal notation: whitespace, an optional sign,
\* digits with an optional point, at least one digit in all.  The value is
\* in hundredths.  (Exponents, hexadecimal floats, "inf" and "nan" are not
\* among the values of the model.)
stod(s) ==
    LET i == SkipSpace(s, 1)
        j == AfterSign(s, i)
        k == DigitsEnd(s, j)
        point == k <= Len(s) /\ s[k] = "."
        m == IF point THEN DigitsEnd(s, k + 1) ELSE k
        fraction == IF ~point \/ m = k + 1 THEN 0
                    ELSE IF m = k + 2 THEN 10 * DigitsValue(s, k + 1, m)
                    ELSE DigitsValue(s, k + 1, k + 3)
        magnitude == (100 * DigitsValue(s, j, k)) + fraction
        end == IF point /\ (k > j \/ m > k + 1) THEN m ELSE k
    IN  IF k = j /\ ~(point /\ m > k + 1)
        THEN [ok |-> FALSE, value |-> 0, pos |-> 0]
        ELSE [ok |-> TRUE,
              value |-> IF Negative(s, i) THEN -magnitude ELSE magnitude,
              pos |-> end - 1]

\* ParamValue::AsDouble: ok is FALSE where it throws.
AsDouble(raw_value) ==
    LET r == stod(raw_value)
    IN  [ok |-> r.ok /\ r.pos = Len(raw_value), value |-> r.value]

BoolLiterals == {<<"t", "r", "u", "e">>, <<"y", "e", "s">>, <<"1">>,
                 <<"f", "a", "l", "s", "e">>, <<"n", "o">>, <<"0">>}

\* ParamValue::AsBool: ok is FALSE where it throws.
AsBool(raw_value) ==
    LET lower == ToLower(raw_value)
    IN  [ok |-> lower \in BoolLiterals,
         value |-> lower \in {<<"t", "r", "u", "e">>, <<"y", "e", "s">>, <<"1">>}]

\* CommandContext: params_ is a function from the names present to raw values.
HasParam(params, name) == name \in DOMAIN params

GetParam(params, name) == IF name \in DOMAIN params THEN params[name] ELSE << >>

SetParam(params, name, value) ==
    [n \in DOMAIN params \cup {name} |-> IF n = name THEN value ELSE params[n]]

\* static_cast<int> of a double given in hundredths: truncation toward zero.
StaticCastInt(d) == IF d >= 0 THEN d \div 100 ELSE -((-d) \div 100)

\* std::optional<double>: the empty set, or the set of its one value.
HasValue(opt) == opt # {}

ValueOf(opt) == CHOOSE v \in opt : TRUE

\* ParamDescriptor (description is not read by the dispatcher).
ParamDescriptor(name, type, required, default_value, enum_values, min_value, max_value) ==
    [name |-> name, type |-> type, required |-> required,
     default_value |-> default_value, enum_values |-> enum_values,
     min_value |-> min_value, max_value |-> max_value]

\* Step 3 of ValidateAndFillDefaults: the type and constraint check of one
\* present value.
ValidateParam(param, value) ==
    CASE param.type = "kInteger" ->
            LET int_value == AsInt(value)
            IN  /\ int_value.ok
                /\ ~(HasValue(param.min_value)
                     /\ int_value.value < StaticCastInt(ValueOf(param.min_value)))
                /\ ~(HasValue(param.max_value)
                     /\ int_value.value > StaticCastInt(ValueOf(param.max_value)))
      [] param.type = "kDouble" ->
            LET double_value == AsDouble(value)
            IN  /\ double_value.ok
                /\ ~(HasValue(param.min_value)
                     /\ double_value.value < ValueOf(param.min_value))
                /\ ~(HasValue(param.max_value)
                     /\ double_value.value > ValueOf(param.max_value))
      [] param.type = "kBool" -> AsBool(value).ok
      [] param.type = "kEnum" ->
            \E i \in DOMAIN param.enum_values :
                EqualsIgnoreCase(value, param.enum_values[i])
      [] OTHER -> TRUE

\* Mutant of FillDefault.
FillDefault_Overwrite(params, param) ==
    IF param.default_value # << >>
    THEN SetParam(params, param.name, param.default_value)
    ELSE params

\* Step 2 of ValidateAndFillDefaults: the context's params after the default
\* of param has been filled in where the parameter is missing.
FillDefault(params, param) ==
    IF ~HasParam(params, param.name) /\ param.default_value # << >>
    THEN SetParam(params, param.name, param.default_value)
    ELSE params

\* CommandDispatcher::ValidateAndFillDefaults on the parameters from the
\* i-th on: whether it returns true, and the context's params on return.
RECURSIVE ValidateFrom(_, _, _)
ValidateFrom(parameters, params, i) ==
    IF i > Len(parameters) THEN [ok |-> TRUE, params |-> params]
    ELSE
      LET param == parameters[i]
          present == HasParam(params, param.name)
          filled == FillDefault(params, param)
          has_param == HasParam(filled, param.name)
      IN  IF param.required /\ ~present THEN [ok |-> FALSE, params |-> params]
          ELSE IF ~has_param THEN ValidateFrom(parameters, filled, i + 1)
          ELSE IF ValidateParam(param, GetParam(filled, param.name))
               THEN ValidateFrom(parameters, filled, i + 1)
               ELSE [ok |-> FALSE, params |-> filled]

ValidateAndFillDefaults(descriptor, params) ==
    ValidateFrom(descriptor.parameters, params, 1)

\* CommandRegistry::FindCommand / FindDescriptor: a command and its
\* descriptor are registered and removed together.
FindCommand(name) == name \in DOMAIN commands

FindDescriptor(name) == commands[name]

\* CommandDispatcher::Dispatch(dispatch_name, dispatch_context) with a
\* handler whose Execute returns handler_result.
Dispatch(handler_result) ==
    /\ dispatch_pc = "ready"
    /\ dispatch_pc' = "done"
    /\ IF ~FindCommand(dispatch_name)
       THEN /\ dispatch_result' = "kFailure"
            /\ UNCHANGED <<executed, handler_context, handler_returned, dispatch_locals>>
       ELSE LET v == ValidateAndFillDefaults(FindDescriptor(dispatch_name),
                                             dispatch_context)
            IN  IF ~v.ok
                THEN /\ dispatch_result' = "kInvalidParams"
                     /\ UNCHANGED <<executed, handler_context, handler_returned, dispatch_locals>>
                ELSE /\ executed' = executed + 1
                     /\ handler_context' = v.params
                     /\ handler_returned' = handler_result
                     /\ UNCHANGED dispatch_locals
                     /\ dispatch_result' = handler_result
    /\ UNCHANGED <<commands, dispatch_name, dispatch_context>>
    /\ UNCHANGED <<orch_vars, thread_vars, obs_vars, reg_vars, cap_vars, time_vars, nlu_vars, vad_vars>>

(***************************************************************************)
(* The dispatcher's specification: a descriptor is registered, a context   *)
(* is built and dispatched.                                                *)
(***************************************************************************)
\* The raw values a recogniser may deliver for a parameter of a type.
RawValues(type) ==
    CASE type = "kInteger" ->
            {<<"0">>, <<"1">>, <<"2">>, <<"-", "1">>, <<"-", "2">>, <<" ", "2">>,
             <<"2", "x">>, <<"1", ".", "5">>, << >>}
      [] type = "kDouble" ->
            {<<"1">>, <<"1", ".", "5">>, <<"2">>, <<"-", "1", ".", "5">>, <<"-", "2">>,
             <<".", "5">>, <<"1", ".">>, <<"1", ".", "5", "x">>, <<"x">>}
      [] type = "kBool" ->
            {<<"t", "r", "u", "e">>, <<"Y", "E", "S">>, <<"N", "o">>, <<"0">>,
             <<"2">>, <<"o", "n">>, << >>}
      [] type = "kEnum" ->
            {<<"r", "e", "d">>, <<"R", "E", "D">>, <<"b", "l", "u", "e">>,
             <<"r", "e">>, << >>}
      [] OTHER -> {<<"x">>, <<"r", "e", "d">>, << >>}

\* The default values of a descriptor: none, one its type accepts, one it does not.
DefaultValues(type) ==
    CASE type = "kInteger" -> {<< >>, <<"2">>, <<"2", "x">>}
      [] type = "kDouble" -> {<< >>, <<"1", ".", "5">>, <<"x">>}
      [] type = "kBool" -> {<< >>, <<"t", "r", "u", "e">>, <<"2">>}
      [] type = "kEnum" -> {<< >>, <<"r", "e", "d">>, <<"r", "e">>}
      [] OTHER -> {<< >>, <<"x">>}

EnumValues(type) ==
    IF type = "kEnum" THEN <<<<"r", "e", "d">>, <<"B", "l", "u", "e">>>> ELSE << >>

\* Bounds in hundredths: unset, 1, 1.5, -1.5 and unset, 2, 1.5, -1.5.
MinValues(type) ==
    IF type \in {"kInteger", "kDouble"} THEN {{}, {100}, {150}, {-150}} ELSE {{}}

MaxValues(type) ==
    IF type \in {"kInteger", "kDouble"} THEN {{}, {200}, {150}, {-150}} ELSE {{}}

\* The parameter descriptors called name; without bounds when ~ranged.
ParamDescriptors(name, ranged) ==
    UNION {{ParamDescriptor(name, type, required, default_value, EnumValues(type),
                            min_value, max_value) :
               required \in BOOLEAN,
               default_value \in DefaultValues(type),
               min_value \in (IF ranged THEN MinValues(type) ELSE {{}}),
               max_value \in (IF ranged THEN MaxValues(type) ELSE {{}})} :
           type \in ParamType}

\* The descriptors of the command called name: no parameter, one parameter,
\* or two parameters without bounds, the second of them not a number.
CommandDescriptors(name) ==
    {[name |-> name, parameters |-> parameters] :
        parameters \in
            {<< >>}
            \cup {<<p>> : p \in ParamDescriptors("level", TRUE)}
            \cup {<<p, q>> : p \in ParamDescriptors("level", FALSE),
                             q \in {d \in ParamDescriptors("mode", FALSE) :
                                       d.type \in {"kEnum", "kBool", "kString"}}}}

CommandNames == {"zoom_to", "unknown"}

\* What a recognition result can say about one declared parameter: nothing,
\* or a raw value.
ParamChoices(param) ==
    {<< >>} \cup {param.name :> value : value \in RawValues(param.type)}

\* The params of the contexts built for a command with these parameters
\* (from the i-th on); for a command with fewer than two parameters, with or
\* without a parameter the descriptor does not declare.
RECURSIVE ContextParams(_, _)
ContextParams(parameters, i) ==
    IF i > Len(parameters)
    THEN IF Len(parameters) < 2 THEN {<< >>, "extra" :> <<"x">>} ELSE {<< >>}
    ELSE {a @@ b : a \in ParamChoices(parameters[i]),
                   b \in ContextParams(parameters, i + 1)}

\* Mutant of Register_Insert.
Register_Insert_Replace(present) == TRUE

\* CommandRegistry::Register: whether the entry is inserted, given whether
\* the name is present.
Register_Insert(present) == ~present

\* CommandRegistry::Register(descriptor, command).
Register(descriptor, command) ==
    /\ dispatch_pc = "idle"
    /\ IF Register_Insert(descriptor.name \in DOMAIN commands)
       THEN /\ next_node <= MaxEntries
            /\ commands' = (descriptor.name :> descriptor) @@ commands
            /\ handlers' = (descriptor.name :> command) @@ handlers
            /\ entry_node' = (descriptor.name :> next_node) @@ entry_node
            /\ next_node' = next_node + 1
            /\ ret' = "true"
       ELSE /\ ret' = "false"
            /\ UNCHANGED <<commands, handlers, entry_node, next_node>>
    /\ last_op' = "Register"
    /\ reg_arg' = descriptor.name
    /\ emitted' = << >>
    /\ UNCHANGED <<tick, capture_open>>
    /\ enq' = 0
    /\ UNCHANGED <<dispatch_pc, dispatch_name, dispatch_context, dispatch_result,
                   executed, handler_context, handler_returned, dispatch_locals>>
    /\ UNCHANGED <<reader_pc, reader_ptrs, reader_read>>
    /\ UNCHANGED <<orch_vars, thread_vars, next_id, last_taken, cap_vars, time_vars, nlu_vars, vad_vars>>

\* ProcessAudio builds the context of a recognised command from the
\* recognition's params and hands it to Dispatch.
BuildContext(command_name, params) ==
    /\ dispatch_pc = "idle"
    /\ dispatch_pc' = "ready"
    /\ dispatch_name' = command_name
    /\ dispatch_context' = params
    /\ UNCHANGED <<commands, dispatch_result, executed, handler_context, handler_returned, dispatch_locals>>
    /\ UNCHANGED <<orch_vars, thread_vars, obs_vars, reg_vars, cap_vars, time_vars, nlu_vars, vad_vars>>

\* Mutant of CommandExecutedResult.
CommandExecutedResult_Mapped(result) ==
    IF result = "kNotHandled" THEN "kFailure" ELSE result

\* ProcessAudio: the result argument of commandExecuted (of command_callback_)
\* is the value Dispatch returned.
CommandExecutedResult(result) == result

\* ProcessAudio, after Dispatch has returned: commandExecuted is emitted.
ProcessAudio_Emit ==
    /\ dispatch_pc = "done"
    /\ dispatch_pc' = "emitted"
    /\ last_op' = "ProcessAudio"
    /\ ret' = "void"
    /\ emitted' = << <<"commandExecuted", CommandExecutedResult(dispatch_result)>> >>
    /\ UNCHANGED <<tick, capture_open>>
    /\ enq' = 0
    /\ UNCHANGED <<commands, dispatch_name, dispatch_context, dispatch_result,
                   executed, handler_context, handler_returned, dispatch_locals>>
    /\ UNCHANGED <<orch_vars, thread_vars, next_id, last_taken, reg_vars, cap_vars, time_vars, nlu_vars, vad_vars>>

DispatchInit == OrchInit({"qt"}) /\ DispIdle /\ RegIdle /\ CapIdle({"sdl"}) /\ NluIdle /\ VadIdle

DispatchNext ==
    \/ /\ commands = << >>
       /\ \E descriptor \in CommandDescriptors("zoom_to") : Register(descriptor, 1)
    \/ \E command_name \in CommandNames :
          \E params \in (IF command_name \in DOMAIN commands
                         THEN ContextParams(commands[command_name].parameters, 1)
                         ELSE {<< >>}) :
              BuildContext(command_name, params)
    \/ \E handler_result \in CommandResult : Dispatch(handler_result)
    \/ ProcessAudio_Emit

DispatchSpec == DispatchInit /\ [][DispatchNext]_vars

(***************************************************************************)
(* The registry's specification: one thread registers and unregisters      *)
(* commands while another (the worker inside a recognition strategy)        *)
(* iterates over the descriptors.                                           *)
(***************************************************************************)
RegistryNames == {"zoom_to", "show_help"}

\* Per name a simple and a parameterised descriptor.
RegistryDescriptors ==
    {[name |-> name, parameters |-> parameters] :
        name \in RegistryNames,
        parameters \in {<< >>,
                        <<ParamDescriptor("level", "kInteger", TRUE, << >>, << >>, {}, {})>>}}

\* The identities of the ICommand objects handed to Register.
Handlers == {"handler_a", "handler_b"}

\* The function f without name in its domain (unordered_map::erase).
Erase(f, name) == [n \in DOMAIN f \ {name} |-> f[n]]

\* CommandRegistry::Unregister(name).
Unregister(name) ==
    /\ dispatch_pc = "idle"
    /\ IF name \in DOMAIN commands
       THEN /\ commands' = Erase(commands, name)
            /\ handlers' = Erase(handlers, name)
            /\ entry_node' = Erase(entry_node, name)
            /\ ret' = "true"
       ELSE /\ ret' = "false"
            /\ UNCHANGED <<commands, handlers, entry_node>>
    /\ last_op' = "Unregister"
    /\ reg_arg' = name
    /\ emitted' = << >>
    /\ UNCHANGED <<tick, capture_open>>
    /\ enq' = 0
    /\ UNCHANGED <<dispatch_pc, dispatch_name, dispatch_context, dispatch_result,
                   executed, handler_context, handler_returned, dispatch_locals>>
    /\ UNCHANGED <<next_node, reader_pc, reader_ptrs, reader_read>>
    /\ UNCHANGED <<orch_vars, thread_vars, next_id, last_taken, cap_vars, time_vars, nlu_vars, vad_vars>>

\* The nodes that hold an entry of the map.
LiveNodes == {entry_node[n] : n \in DOMAIN entry_node}

\* The descriptor in a live node.
NodeDescriptor(node) == commands[CHOOSE n \in DOMAIN entry_node : entry_node[n] = node]

\* What a read of freed memory may deliver.
Garbage == [name |-> "", parameters |-> << >>]

\* CommandRegistry::GetAllDescriptors: under the shared lock, the address of
\* every entry's descriptor is collected; the lock is released on return.
\* (pointee: the descriptor at that address when the vector was built.)
GetAllDescriptors ==
    {[node |-> entry_node[n], pointee |-> commands[n]] : n \in DOMAIN commands}

\* A strategy's Recognize calls GetAllDescriptors.
Reader_GetAllDescriptors ==
    /\ reader_pc = "idle"
    /\ reader_pc' = "holding"
    /\ reader_ptrs' = GetAllDescriptors
    /\ UNCHANGED <<handlers, entry_node, next_node, reader_read, reg_arg>>
    /\ last_op' = "Recognize"
    /\ ret' = "void"
    /\ emitted' = << >>
    /\ UNCHANGED <<tick, capture_open>>
    /\ enq' = 0
    /\ UNCHANGED <<orch_vars, thread_vars, next_id, last_taken, disp_vars, cap_vars, time_vars, nlu_vars, vad_vars>>

\* The strategy reads the descriptors through the pointers (BuildPhraseMap's
\* loop, the NLU engine's Process).  A pointer into an erased node dangles:
\* the read is undefined and may deliver anything.
Reader_Use(read) ==
    /\ reader_pc = "holding"
    /\ \A p \in reader_ptrs :
          p.node \in LiveNodes => read[p] = NodeDescriptor(p.node)
    /\ reader_read' = {read[p] : p \in reader_ptrs}
    /\ reader_pc' = "done"
    /\ UNCHANGED <<handlers, entry_node, next_node, reader_ptrs, reg_arg>>
    /\ last_op' = "Recognize"
    /\ ret' = "void"
    /\ emitted' = << >>
    /\ UNCHANGED <<tick, capture_open>>
    /\ enq' = 0
    /\ UNCHANGED <<orch_vars, thread_vars, next_id, last_taken, disp_vars, cap_vars, time_vars, nlu_vars, vad_vars>>

\* Recognize returns; the vector is destroyed.
Reader_Return ==
    /\ reader_pc = "done"
    /\ reader_pc' = "idle"
    /\ reader_ptrs' = {}
    /\ reader_read' = {}
    /\ UNCHANGED <<handlers, entry_node, next_node, reg_arg>>
    /\ last_op' = "Recognize"
    /\ ret' = "void"
    /\ emitted' = << >>
    /\ UNCHANGED <<tick, capture_open>>
    /\ enq' = 0
    /\ UNCHANGED <<orch_vars, thread_vars, next_id, last_taken, disp_vars, cap_vars, time_vars, nlu_vars, vad_vars>>

RegistryInit == OrchInit({"qt"}) /\ DispIdle /\ RegIdle /\ CapIdle({"sdl"}) /\ NluIdle /\ VadIdle

RegistryNext ==
    \/ \E descriptor \in RegistryDescriptors, command \in Handlers :
          Register(descriptor, command)
    \/ \E name \in RegistryNames : Unregister(name)
    \/ Reader_GetAllDescriptors
    \/ \E read \in [reader_ptrs -> RegistryDescriptors \cup {Garbage}] : Reader_Use(read)
    \/ Reader_Return

RegistrySpec == RegistryInit /\ [][RegistryNext]_vars

(***************************************************************************)
(* Part III: the capture backends' circular buffer                         *)
(* (src/src/audio_capture/sdl/sdl_audio_capture.cpp and                     *)
(* src/src/audio_capture/qt/qt_audio_capture.cpp).  The k-th sample the     *)
(* device delivers has the value k.                                         *)
(***************************************************************************)
Min(a, b) == IF a <= b THEN a ELSE b

\* The float the backend stores for the device's sample x, as a fraction
\* <<numerator, denominator>>: SDL delivers floats, which are copied; Qt
\* delivers Int16, stored as x / 32768.  <<0, 1>> is a value-initialised float.
StoredSample(b, x) == IF b = "qt" THEN <<x, 32768>> ELSE <<x, 1>>

\* Init: the buffer is resized to sample_rate * buffer_duration_ms / 1000
\* value-initialised floats.
BufferSize(rate, duration_ms) == (rate * duration_ms) \div 1000

\* The last n elements of the sequence s.
LastN(s, n) == SubSeq(s, Len(s) - n + 1, Len(s))

\* Mutant of SourceOffset.
SourceOffset_Head(n_samples, samples_to_copy) == 0

\* AudioCallback / OnAudioData: how many samples at the head of an incoming
\* block of n_samples are skipped when samples_to_copy of them are kept.
SourceOffset(n_samples, samples_to_copy) == n_samples - samples_to_copy

\* SdlAudioCapture::AudioCallback: the buffer after src (a sequence of
\* samples_to_copy samples) is copied in at pos, in two parts when it wraps.
MemcpyIn(buffer, pos, src) ==
    LET size == Cardinality(DOMAIN buffer)
        first_part == size - pos
    IN  IF pos + Len(src) > size
        THEN [i \in DOMAIN buffer |->
                 IF i >= pos THEN src[i - pos + 1]
                 ELSE IF i < Len(src) - first_part THEN src[first_part + i + 1]
                 ELSE buffer[i]]
        ELSE [i \in DOMAIN buffer |->
                 IF i >= pos /\ i < pos + Len(src) THEN src[i - pos + 1] ELSE buffer[i]]

\* QtAudioCapture::OnAudioData: the loop that stores one sample and advances
\* the position modulo the size; the buffer and the position after it.
RECURSIVE StoreLoop(_, _, _)
StoreLoop(buffer, pos, src) ==
    IF src = << >> THEN [buffer |-> buffer, pos |-> pos]
    ELSE StoreLoop([buffer EXCEPT ![pos] = Head(src)],
                   (pos + 1) % Cardinality(DOMAIN buffer), Tail(src))

\* Mutant of StartPos.
StartPos_NoWrap(pos, n_samples, size) ==
    IF pos - n_samples < 0 THEN 0 ELSE pos - n_samples

\* GetAudio: the start position in the circular buffer.
StartPos(pos, n_samples, size) ==
    IF pos - n_samples < 0 THEN pos - n_samples + size ELSE pos - n_samples

\* GetAudio: the n_samples samples copied out from s0 on, in two parts when
\* the range wraps.
MemcpyOut(buffer, s0, n_samples) ==
    LET size == Cardinality(DOMAIN buffer)
        first_part == size - s0
    IN  IF s0 + n_samples > size
        THEN [i \in 1..n_samples |->
                 IF i <= first_part THEN buffer[s0 + i - 1] ELSE buffer[i - first_part - 1]]
        ELSE [i \in 1..n_samples |-> buffer[s0 + i - 1]]

\* GetAudio(duration_ms) on a buffer holding len samples: the samples returned.
GetAudioSamples(buffer, pos, len, rate, buffer_ms, duration_ms) ==
    LET duration == IF duration_ms <= 0 THEN buffer_ms ELSE duration_ms
        n_samples == Min((rate * duration) \div 1000, len)
        s0 == StartPos(pos, n_samples, Cardinality(DOMAIN buffer))
    IN  MemcpyOut(buffer, s0, n_samples)

CapObs(op, r) ==
    /\ last_op' = op
    /\ ret' = r
    /\ emitted' = << >>
    /\ UNCHANGED <<tick, capture_open>>
    /\ enq' = 0
    /\ UNCHANGED <<next_id, last_taken>>
    /\ UNCHANGED <<orch_vars, thread_vars, disp_vars, reg_vars, time_vars, nlu_vars, vad_vars>>

\* Init(config), the device opening: the buffer is resized and emptied.
Capture_Init(rate, duration_ms) ==
    /\ ~device_open
    /\ device_open' = TRUE
    /\ sample_rate' = rate
    /\ buffer_duration_ms' = duration_ms
    /\ audio_buffer' = [i \in 0..(BufferSize(rate, duration_ms) - 1) |-> StoredSample("sdl", 0)]
    /\ buffer_pos' = 0
    /\ buffer_len' = 0
    /\ written' = << >>
    /\ UNCHANGED <<backend, capture_running, next_sample, samples, get_duration, block_len>>
    /\ CapObs("Capture_Init", "true")

\* Shutdown(): Stop, close the device, clear the buffer.
Capture_Shutdown ==
    /\ device_open
    /\ device_open' = FALSE
    /\ capture_running' = FALSE
    /\ audio_buffer' = << >>
    /\ buffer_pos' = 0
    /\ buffer_len' = 0
    /\ written' = << >>
    /\ UNCHANGED <<backend, sample_rate, buffer_duration_ms, next_sample, samples, get_duration, block_len>>
    /\ CapObs("Capture_Shutdown", "void")

\* Start(): fails without a device or when already running.
Capture_Start ==
    /\ IF device_open /\ ~capture_running
       THEN capture_running' = TRUE /\ CapObs("Capture_Start", "true")
       ELSE UNCHANGED capture_running /\ CapObs("Capture_Start", "false")
    /\ UNCHANGED <<backend, device_open, sample_rate, buffer_duration_ms, audio_buffer,
                   buffer_pos, buffer_len, written, next_sample, samples, get_duration, block_len>>

\* Stop(): fails without a device or when already stopped.
Capture_Stop ==
    /\ IF device_open /\ capture_running
       THEN capture_running' = FALSE /\ CapObs("Capture_Stop", "true")
       ELSE UNCHANGED capture_running /\ CapObs("Capture_Stop", "false")
    /\ UNCHANGED <<backend, device_open, sample_rate, buffer_duration_ms, audio_buffer,
                   buffer_pos, buffer_len, written, next_sample, samples, get_duration, block_len>>

\* SdlAudioCapture::AudioCallback / QtAudioCapture::OnAudioData with a block
\* of n_samples samples: dropped when not running, else the tail that fits is
\* stored at the write position.  The device's samples are numbered from 1.
AudioCallback(n_samples) ==
    /\ device_open
    /\ next_sample + n_samples <= MaxSamples + 1
    /\ next_sample' = next_sample + n_samples
    /\ IF ~capture_running
       THEN UNCHANGED <<audio_buffer, buffer_pos, buffer_len, written>>
       ELSE LET size == Cardinality(DOMAIN audio_buffer)
                samples_to_copy == Min(n_samples, size)
                skip == SourceOffset(n_samples, samples_to_copy)
                block == [i \in 1..n_samples |-> next_sample + i - 1]
                src == [i \in 1..samples_to_copy |-> StoredSample(backend, block[skip + i])]
            IN  /\ IF backend = "sdl"
                   THEN /\ audio_buffer' = MemcpyIn(audio_buffer, buffer_pos, src)
                        /\ buffer_pos' = (buffer_pos + samples_to_copy) % size
                   ELSE /\ audio_buffer' = StoreLoop(audio_buffer, buffer_pos, src).buffer
                        /\ buffer_pos' = StoreLoop(audio_buffer, buffer_pos, src).pos
                /\ buffer_len' = Min(buffer_len + samples_to_copy, size)
                /\ written' = written \o block
    /\ block_len' = n_samples
    /\ UNCHANGED <<backend, device_open, sample_rate, buffer_duration_ms, capture_running,
                   samples, get_duration>>
    /\ CapObs("AudioCallback", "void")

\* GetAudio(duration_ms, samples): empty without a device or when not running.
GetAudio(duration_ms) ==
    /\ get_duration' = duration_ms
    /\ samples' = IF device_open /\ capture_running
                  THEN GetAudioSamples(audio_buffer, buffer_pos, buffer_len,
                                       sample_rate, buffer_duration_ms, duration_ms)
                  ELSE << >>
    /\ UNCHANGED <<backend, device_open, sample_rate, buffer_duration_ms, audio_buffer,
                   buffer_pos, buffer_len, capture_running, written, next_sample, block_len>>
    /\ CapObs("GetAudio", "void")

\* Clear(): empties the buffer of a running capture.
Clear ==
    /\ IF device_open /\ capture_running
       THEN /\ buffer_pos' = 0
            /\ buffer_len' = 0
            /\ written' = << >>
            /\ CapObs("Clear", "true")
       ELSE /\ UNCHANGED <<buffer_pos, buffer_len, written>>
            /\ CapObs("Clear", "false")
    /\ UNCHANGED <<backend, device_open, sample_rate, buffer_duration_ms, audio_buffer,
                   capture_running, next_sample, samples, get_duration, block_len>>

CaptureInit == OrchInit({"qt"}) /\ DispIdle /\ RegIdle /\ CapIdle({"sdl", "qt"}) /\ NluIdle /\ VadIdle

CaptureNext ==
    \* sample rates and buffer durations that give the capacities 2, 3 and 4
    \* (the program's defaults are 16000 Hz and 30000 ms)
    \/ \E rate \in {1000, 1500}, duration_ms \in {2, 3} : Capture_Init(rate, duration_ms)
    \/ Capture_Shutdown
    \/ Capture_Start
    \/ Capture_Stop
    \/ \E n_samples \in 1..MaxBlock : AudioCallback(n_samples)
    \/ \E duration_ms \in 0..MaxDuration : GetAudio(duration_ms)
    \/ Clear

CaptureSpec == CaptureInit /\ [][CaptureNext]_vars

(***************************************************************************)
(* Claims about the orchestrator.                                          *)
(***************************************************************************)
\* The positions in sigs of the notifications called name.
Positions(sigs, name) == {i \in DOMAIN sigs : sigs[i][1] = name}

\* The windows in the queue q.
Windows(q) == {q[i] : i \in DOMAIN q}

\* C1: in every reachable state the audio queue holds at most max_queue_depth
\* windows.
C1_QueueBounded == Len(audio_queue) <= config.max_queue_depth

\* A running assistant whose queue is full.
C1_Witness == running /\ Len(audio_queue) = config.max_queue_depth

\* C2: a step that hands a window to a queue already holding max_queue_depth
\* windows leaves the queue as it was (same windows, same order), and the
\* arriving window is not in it.
C2_DropNewest ==
    [][(enq' # 0 /\ Len(audio_queue) >= config.max_queue_depth)
          => (audio_queue' = audio_queue /\ enq' \notin Windows(audio_queue'))]_vars

\* The last step handed window enq to a full queue, which does not hold it.
C2_Witness ==
    /\ enq # 0
    /\ Len(audio_queue) = config.max_queue_depth
    /\ enq \notin Windows(audio_queue)

\* C3: the worker takes a window only when it holds none, and the window it
\* takes was queued after every window it took before and before every window
\* still queued.
C3_FifoDispatch ==
    [][(worker_item' # worker_item /\ worker_item' # 0)
          => /\ worker_item = 0
             /\ worker_item' > last_taken
             /\ \A w \in Windows(audio_queue') : w > worker_item']_vars

\* The worker dispatches the second window it took while a later one waits.
C3_Witness ==
    /\ worker_pc = "dispatch"
    /\ worker_item >= 2
    /\ audio_queue # << >>

\* C4: a Stop called on a running assistant returns.
C4_StopReturns == (main_call = "Stop") ~> (main_pc = "idle")

\* C5: in the state Stop returns in, running is false, the threads are joined,
\* the timer and audio capture are stopped, the queue is empty and the
\* listening state is kIdle.
C5_StopPostcondition ==
    last_op = "Stop" =>
        /\ ~running
        /\ worker_pc = "none"
        /\ audio_pc = "none"
        /\ ~timer_active
        /\ ~audio_running
        /\ audio_queue = << >>
        /\ listening_state = "kIdle"

\* Stop has just returned, and the one window ever queued, which the worker
\* never took, is gone from the queue.
C5_Witness ==
    /\ last_op = "Stop"
    /\ next_id = 2
    /\ last_taken = 0
    /\ audio_queue = << >>

\* C6: the wake-word GuidedMatch on the timer thread never overlaps an ASR call
\* of the worker.
C6_OneAsrInFlight == ~(main_pc = "wake_match" /\ worker_pc = "asr")

\* C7: startCapture outside kPushToTalk mode, outside kIdle or on an assistant
\* that is not running returns false, leaves the listening state unchanged and
\* emits neither captureStarted nor listeningStateChanged.
C7_StartCaptureRejected ==
    [][(/\ last_op' = "startCapture"
        /\ \/ config.listening_mode # "kPushToTalk"
           \/ listening_state # "kIdle"
           \/ ~running)
          => /\ ret' = "false"
             /\ listening_state' = listening_state
             /\ Positions(emitted', "captureStarted") = {}
             /\ Positions(emitted', "listeningStateChanged") = {}]_vars

\* startCapture has just been rejected while capturing in kPushToTalk mode.
C7_Witness ==
    /\ last_op = "startCapture"
    /\ ret = "false"
    /\ config.listening_mode = "kPushToTalk"
    /\ listening_state = "kCapturing"

\* C8: stopCapture in a state other than kCapturing returns false, leaves the
\* listening state and the audio queue unchanged and emits neither
\* captureEnded nor listeningStateChanged.
C8_StopCaptureRejected ==
    [][(last_op' = "stopCapture" /\ listening_state # "kCapturing")
          => /\ ret' = "false"
             /\ listening_state' = listening_state
             /\ audio_queue' = audio_queue
             /\ Positions(emitted', "captureEnded") = {}
             /\ Positions(emitted', "listeningStateChanged") = {}]_vars

\* stopCapture has just been rejected on a running assistant that listens.
C8_Witness ==
    /\ last_op = "stopCapture"
    /\ ret = "false"
    /\ running
    /\ listening_state = "kListening"

\* C9: a step changes the listening state if and only if it emits
\* listeningStateChanged, and then it emits it once, with the previous and the
\* new state.
C9_StateChangeAnnounced ==
    [][IF listening_state' # listening_state
       THEN /\ Cardinality(Positions(emitted', "listeningStateChanged")) = 1
            /\ \A i \in Positions(emitted', "listeningStateChanged") :
                   emitted'[i] = <<"listeningStateChanged", listening_state, listening_state'>>
       ELSE Positions(emitted', "listeningStateChanged") = {}]_vars

(***************************************************************************)
(* Claims about the dispatcher.                                            *)
(***************************************************************************)
\* The check the specification states for a value of a declared parameter:
\* it parses in full as its type, lies in [min, max] where those are set (the
\* value and the bounds compared as numbers), or equals an enum value up to
\* letter case.
PassesCheck(param, value) ==
    CASE param.type = "kInteger" ->
            /\ AsInt(value).ok
            /\ HasValue(param.min_value) => ValueOf(param.min_value) <= 100 * AsInt(value).value
            /\ HasValue(param.max_value) => 100 * AsInt(value).value <= ValueOf(param.max_value)
      [] param.type = "kDouble" ->
            /\ AsDouble(value).ok
            /\ HasValue(param.min_value) => ValueOf(param.min_value) <= AsDouble(value).value
            /\ HasValue(param.max_value) => AsDouble(value).value <= ValueOf(param.max_value)
      [] param.type = "kBool" -> ToLower(value) \in BoolLiterals
      [] param.type = "kEnum" ->
            \E i \in DOMAIN param.enum_values : ToLower(value) = ToLower(param.enum_values[i])
      [] OTHER -> TRUE

\* Every required parameter of the dispatched command is in the context that
\* was dispatched, and every declared parameter in it passes its check.
ContextAcceptable ==
    \A i \in DOMAIN commands[dispatch_name].parameters :
        LET param == commands[dispatch_name].parameters[i]
        IN  /\ param.required => HasParam(dispatch_context, param.name)
            /\ HasParam(dispatch_context, param.name)
                  => PassesCheck(param, dispatch_context[param.name])

\* C10: once a registered command has been dispatched, its handler was
\* invoked exactly once if every required parameter is present in the context
\* and every provided parameter passes its type, range or enum check; in all
\* other cases the handler was not invoked and the result is InvalidParams.
C10_HandlerIffAcceptable ==
    (dispatch_pc = "done" /\ FindCommand(dispatch_name)) =>
        IF ContextAcceptable THEN executed = 1
        ELSE executed = 0 /\ dispatch_result = "kInvalidParams"

\* The dispatched command is registered and its parameter validation failed.
ValidationFailed ==
    /\ FindCommand(dispatch_name)
    /\ ~ValidateAndFillDefaults(FindDescriptor(dispatch_name), dispatch_context).ok

\* C11 as stated: commandExecuted carries the value Dispatch returned; that
\* value is InvalidParams, with no handler invocation, when parameter
\* validation failed, and otherwise it is the result the handler returned.
C11_ResultVerbatim ==
    dispatch_pc = "emitted" =>
        /\ emitted = << <<"commandExecuted", dispatch_result>> >>
        /\ IF ValidationFailed
           THEN dispatch_result = "kInvalidParams" /\ executed = 0
           ELSE executed = 1 /\ dispatch_result = handler_returned

\* C11, amended: commandExecuted carries the value Dispatch returned; that
\* value is Failure, with no handler invocation, when the command is not
\* registered, InvalidParams, with no handler invocation, when parameter
\* validation failed, and otherwise the result the handler returned.
C11_ResultVerbatim_Amended ==
    dispatch_pc = "emitted" =>
        /\ emitted = << <<"commandExecuted", dispatch_result>> >>
        /\ IF ~FindCommand(dispatch_name)
           THEN dispatch_result = "kFailure" /\ executed = 0
           ELSE IF ValidationFailed
           THEN dispatch_result = "kInvalidParams" /\ executed = 0
           ELSE executed = 1 /\ dispatch_result = handler_returned

\* commandExecuted was emitted with kNotHandled, which the handler returned.
C11_Witness ==
    /\ dispatch_pc = "emitted"
    /\ executed = 1
    /\ handler_returned = "kNotHandled"
    /\ emitted = << <<"commandExecuted", "kNotHandled">> >>

\* The names of the parameters the dispatched command declares.
DeclaredNames ==
    {commands[dispatch_name].parameters[i].name :
        i \in DOMAIN commands[dispatch_name].parameters}

\* C12: in the context the handler executes with, a declared parameter that
\* was absent and has a non-empty default is present with that default, a
\* parameter that was present keeps its provided value, an absent parameter
\* with an empty default is absent, and the parameters the descriptor does
\* not declare are as they were.
C12_DefaultInjection ==
    executed = 1 =>
        /\ \A i \in DOMAIN commands[dispatch_name].parameters :
              LET param == commands[dispatch_name].parameters[i]
              IN  IF HasParam(dispatch_context, param.name)
                  THEN /\ HasParam(handler_context, param.name)
                       /\ handler_context[param.name] = dispatch_context[param.name]
                  ELSE IF param.default_value # << >>
                  THEN /\ HasParam(handler_context, param.name)
                       /\ handler_context[param.name] = param.default_value
                  ELSE ~HasParam(handler_context, param.name)
        /\ \A n \in (DOMAIN dispatch_context \cup DOMAIN handler_context) \ DeclaredNames :
              /\ HasParam(dispatch_context, n)
              /\ HasParam(handler_context, n)
              /\ handler_context[n] = dispatch_context[n]

\* The handler ran with a default injected for an absent parameter, beside an
\* undeclared parameter of the context.
C12_Witness ==
    /\ executed = 1
    /\ HasParam(dispatch_context, "extra")
    /\ ~HasParam(dispatch_context, "level")
    /\ HasParam(handler_context, "level")

\* The handler ran with a provided value that differs from the parameter's
\* non-empty default, and with a second parameter absent and without default.
C12_WitnessProvided ==
    /\ executed = 1
    /\ HasParam(dispatch_context, "level")
    /\ commands[dispatch_name].parameters[1].default_value
          \notin {<< >>, dispatch_context["level"]}
    /\ Len(commands[dispatch_name].parameters) = 2
    /\ ~HasParam(handler_context, "mode")

(***************************************************************************)
(* Claims about the registry.                                              *)
(***************************************************************************)
\* C13: the registry holds one entry (one node, one descriptor, one handler)
\* per registered name; a Register whose name is present returns false and
\* leaves every entry as it was; a Register whose name is absent, be it after
\* an Unregister of that name, returns true and enters the name.
C13_RegisterOncePerName ==
    /\ [](/\ DOMAIN handlers = DOMAIN commands
          /\ DOMAIN entry_node = DOMAIN commands
          /\ Cardinality(LiveNodes) = Cardinality(DOMAIN commands)
          /\ \A n \in DOMAIN commands : commands[n].name = n)
    /\ [][(last_op' = "Register" /\ reg_arg' \in DOMAIN commands)
             => /\ ret' = "false"
                /\ UNCHANGED <<commands, handlers, entry_node>>]_vars
    /\ [][(last_op' = "Register" /\ reg_arg' \notin DOMAIN commands)
             => /\ ret' = "true"
                /\ reg_arg' \in DOMAIN commands']_vars

\* A Register of a present name has just been rejected, in a behaviour in
\* which a name was registered again after it had been unregistered (three
\* entries were allocated for two names).
C13_Witness ==
    /\ last_op = "Register"
    /\ ret = "false"
    /\ next_node = MaxEntries + 1
    /\ Cardinality(DOMAIN commands) = 1

\* C14: while a thread holds the descriptor list GetAllDescriptors returned,
\* every element of the list refers to an entry that is still in the registry
\* and holds the descriptor it held when the list was built, whatever another
\* thread registers or unregisters meanwhile.
C14_SnapshotStaysValid ==
    reader_pc = "holding" =>
        \A p \in reader_ptrs :
            /\ p.node \in LiveNodes
            /\ NodeDescriptor(p.node) = p.pointee

(***************************************************************************)
(* Claims about the capture buffer.                                        *)
(***************************************************************************)
\* C15: with cap = sample_rate * buffer_duration_ms / 1000, after writes of
\* blocks of any size totalling W samples since Init or the last Clear, the
\* buffer holds min(W, cap) samples and a read of the whole buffer returns
\* exactly the last min(W, cap) samples written, in write order.
C15_RingHoldsLastSamples ==
    device_open =>
        LET cap == (sample_rate * buffer_duration_ms) \div 1000
            n == Min(Len(written), cap)
            last == LastN(written, n)
        IN  /\ Cardinality(DOMAIN audio_buffer) = cap
            /\ buffer_len = n
            /\ GetAudioSamples(audio_buffer, buffer_pos, buffer_len,
                               sample_rate, buffer_duration_ms, 0)
                 = [i \in 1..n |-> StoredSample(backend, last[i])]

\* A block larger than the capacity has just been stored at a write position
\* other than 0, after earlier samples.
C15_Witness ==
    /\ last_op = "AudioCallback"
    /\ capture_running
    /\ block_len > Cardinality(DOMAIN audio_buffer)
    /\ Len(written) > block_len
    /\ buffer_pos # 0

\* C16 as stated: GetAudio(duration_ms) on a running capture returns exactly
\* the most recent min(sample_rate * duration_ms / 1000, len) samples in
\* chronological order, never more than requested, and leaves the buffer, the
\* write index and len as they were.
C16_GetAudioMostRecent ==
    [][last_op' = "GetAudio" /\ device_open /\ capture_running =>
          LET requested == (sample_rate * get_duration') \div 1000
              n == Min(requested, buffer_len)
              last == LastN(written, n)
          IN  /\ samples' = [i \in 1..n |-> StoredSample(backend, last[i])]
              /\ Len(samples') <= requested
              /\ UNCHANGED <<audio_buffer, buffer_pos, buffer_len>>]_vars

\* C16, amended: as C16 for duration_ms > 0; a duration_ms of 0 or less asks
\* for buffer_duration_ms, the whole buffer.
C16_GetAudioMostRecent_Amended ==
    [][last_op' = "GetAudio" /\ device_open /\ capture_running =>
          LET duration == IF get_duration' <= 0 THEN buffer_duration_ms ELSE get_duration'
              requested == (sample_rate * duration) \div 1000
              n == Min(requested, buffer_len)
              last == LastN(written, n)
          IN  /\ samples' = [i \in 1..n |-> StoredSample(backend, last[i])]
              /\ Len(samples') <= requested
              /\ UNCHANGED <<audio_buffer, buffer_pos, buffer_len>>]_vars

\* GetAudio has returned fewer samples than the positive duration asked for,
\* from a range that crosses the wrap point of the buffer.
C16_Witness ==
    /\ last_op = "GetAudio"
    /\ capture_running
    /\ get_duration > 0
    /\ buffer_pos > 0
    /\ buffer_pos < Len(samples)
    /\ Len(samples) < (sample_rate * get_duration) \div 1000

(***************************************************************************)
(* Claims about the notifications of the orchestrator.                     *)
(***************************************************************************)
\* C17: for every window the worker processes exactly one of commandExecuted,
\* unrecognizedSpeech and errorOccurred is emitted, commandExecuted exactly
\* when recognition succeeded (after Dispatch returns) and one of the other
\* two when it failed.
C17_ExactlyOneOutcome ==
    [][worker_item # 0 /\ worker_item' = 0 =>
          /\ Len(emitted') = 1
          /\ emitted'[1][1] \in {"commandExecuted", "unrecognizedSpeech", "errorOccurred"}
          /\ emitted'[1][1] = "commandExecuted" <=> worker_pc = "dispatch"]_vars

C19_DropReported ==
    [][enq' # 0 /\ Len(audio_queue) = config.max_queue_depth /\ audio_queue' = audio_queue =>
          \E i \in DOMAIN emitted' : emitted'[i][1] = "errorOccurred"]_vars

(***************************************************************************)
(* Strategy selection: the Qt surface in continuous mode with every         *)
(* setting of auto_select_strategy and force_nlu_strategy, with and         *)
(* without an NLU engine, and a registry whose commands change.             *)
(***************************************************************************)
\* The configurations Init is called with; kWakeWord with an empty wake word
\* is the configuration Start refuses after it has selected the strategy.
StrategyConfigs ==
    { [MkConfig(m, "") EXCEPT !.auto_select_strategy = a, !.force_nlu_strategy = f] :
          m \in {"kContinuous", "kWakeWord"}, a \in BOOLEAN, f \in BOOLEAN }

\* OnAudioTimer in kContinuous mode.
OnAudioTimer_InContinuous(ended) ==
    /\ main_pc = "idle"
    /\ surface = "qt"
    /\ timer_active
    /\ config.listening_mode = "kContinuous"
    /\ OnAudioTimer_Continuous(ended)

StrategyInit == OrchInit({"qt"}) /\ DispIdle /\ RegIdle /\ CapIdle({"sdl"}) /\ NluIdle /\ VadIdle

StrategyNext ==
    \/ \E cfg \in StrategyConfigs, nlu \in BOOLEAN, ok \in BOOLEAN : InitCall(cfg, nlu, ok)
    \/ \E has_param \in BOOLEAN : RegistryChange(has_param)
    \/ \E ok \in BOOLEAN : Start(ok)
    \/ Stop
    \/ Stop_Notify
    \/ Stop_Join
    \/ Shutdown
    \/ \E b \in BOOLEAN : SetForceNluStrategy(b)
    \/ \E ended \in BOOLEAN : OnAudioTimer_InContinuous(ended)
    \/ Worker_Top
    \/ Worker_Wait
    \/ Worker_Block
    \/ Worker_SpuriousWake
    \/ Worker_Recognize
    \/ \E r \in RecognitionResults : Worker_AsrDone(r)
    \/ \E result \in CommandResult : Worker_DispatchDone(result)

StrategySpec == StrategyInit /\ [][StrategyNext]_vars

C21_InitialStatePerMode ==
    [][last_op' = "Start" /\ ret' = "true" /\ surface = "qt" =>
          /\ config.listening_mode = "kContinuous" => listening_state' = "kListening"
          /\ config.listening_mode = "kWakeWord" => listening_state' = "kListening"
          /\ config.listening_mode = "kPushToTalk" => listening_state' = "kIdle"]_vars

\* Start has succeeded in kPushToTalk mode after an earlier run that queued a
\* window.
C21_Witness ==
    /\ last_op = "Start"
    /\ ret = "true"
    /\ surface = "qt"
    /\ config.listening_mode = "kPushToTalk"
    /\ next_id > 1
    /\ listening_state = "kIdle"

\* C22: Start in kWakeWord mode with an empty wake word returns false and
\* leaves the assistant not running, with no worker, no timer, audio capture
\* stopped and the listening state unchanged; a Shutdown that follows
\* completes at once and releases the components.
C22_EmptyWakeWordStart ==
    /\ [][/\ last_op' = "Start" /\ surface = "qt" /\ initialized /\ ~running
          /\ config.listening_mode = "kWakeWord" /\ config.wake_word = ""
          => /\ ret' = "false"
             /\ ~running'
             /\ worker_pc' = "none"
             /\ ~timer_active'
             /\ ~audio_running'
             /\ listening_state' = listening_state]_vars
    /\ [][last_op' = "Shutdown" /\ initialized /\ ~running /\ main_pc = "idle" =>
             /\ ~initialized'
             /\ strategy' = "none"
             /\ ~audio_running'
             /\ ~nlu_engine'
             /\ main_pc' = "idle"]_vars

\* Start has selected a strategy, started audio capture, found the wake word
\* empty and returned false.
C22_Witness ==
    /\ last_op = "Start"
    /\ ret = "false"
    /\ surface = "qt"
    /\ initialized
    /\ config.listening_mode = "kWakeWord" /\ config.wake_word = ""
    /\ strategy # "none"
    /\ ~running

\* C23: once Stop has set running_ to false the worker dequeues no further
\* window; it exits on waking from the queue wait or on completing the item
\* already in progress.
C23_NoDequeueAfterStop ==
    [][~running => ~(worker_item' # worker_item /\ worker_item' # 0)]_vars

\* C24: at most one processing worker exists: Start creates a worker only
\* when none exists, Start on an uninitialised or a running assistant returns
\* false and creates none, Init on an initialised assistant returns false,
\* and running implies initialised in every reachable state.
C24_SingleWorker ==
    /\ [](running => initialized)
    /\ [][last_op' = "Start" /\ ret' = "true" =>
             worker_pc = "none" /\ worker_pc' = "top"]_vars
    /\ [][last_op' = "Start" /\ (~initialized \/ running) =>
             ret' = "false" /\ worker_pc' = worker_pc]_vars
    /\ [][last_op' = "Init" /\ initialized =>
             ret' = "false" /\ UNCHANGED <<initialized, config, nlu_engine>>]_vars

\* Start has been refused on a running assistant whose worker is alive.
C24_Witness ==
    /\ last_op = "Start"
    /\ ret = "false"
    /\ running
    /\ worker_pc \notin {"none", "done"}


(***************************************************************************)
(* Push-to-talk with the capture buffer and the clock.                     *)
(*                                                                         *)
(* PttSpec starts from the Qt assistant after Init and Start in            *)
(* kPushToTalk mode: the device is open and capturing into an empty        *)
(* buffer and the worker waits on the empty queue.  Time advances one      *)
(* millisecond at a time and the device delivers what it has recorded in   *)
(* blocks, never falling more than one poll interval behind the clock.     *)
(***************************************************************************)

\* Samples the device has recorded up to time t and not yet delivered.
Undelivered(t) == (t * sample_rate) \div 1000 - (next_sample - 1)

\* The number of samples recorded in ms milliseconds.
SamplesIn(ms) == (ms * sample_rate) \div 1000

\* One millisecond passes.
Tick ==
    /\ Undelivered(now + 1) <= SamplesIn(PollIntervalMs)
    /\ SamplesIn(now + 1) <= MaxSamples
    /\ now' = now + 1
    /\ last_op' = "Tick"
    /\ ret' = "void"
    /\ emitted' = << >>
    /\ UNCHANGED <<tick, capture_open>>
    /\ enq' = 0
    /\ UNCHANGED <<orch_vars, thread_vars, next_id, last_taken, disp_vars, reg_vars,
                   cap_vars, capture_start_time, nlu_vars, vad_vars>>

\* The device hands over a block of recorded samples.
Deliver(n_samples) ==
    /\ n_samples <= Undelivered(now)
    /\ AudioCallback(n_samples)

\* AudioEngine::ClearBuffer inside startCapture and stopCapture.
ClearBuffer ==
    /\ IF device_open /\ capture_running
       THEN buffer_pos' = 0 /\ buffer_len' = 0 /\ written' = << >>
       ELSE UNCHANGED <<buffer_pos, buffer_len, written>>
    /\ UNCHANGED <<backend, device_open, sample_rate, buffer_duration_ms, audio_buffer,
                   capture_running, next_sample, block_len>>

\* QtVoiceAssistant::startCapture with the audio engine: the buffer is
\* cleared and the start time recorded.
Ptt_startCapture ==
    /\ main_pc = "idle"
    /\ surface = "qt"
    /\ last_op' = "startCapture"
    /\ UNCHANGED <<disp_vars, reg_vars, nlu_vars, vad_vars, now, thread_vars, next_id, last_taken,
                   samples, get_duration>>
    /\ enq' = 0
    /\ IF startCapture_Rejected
       THEN /\ ret' = "false"
            /\ emitted' = << >>
            /\ UNCHANGED <<tick, capture_open>>
            /\ UNCHANGED <<orch_vars, capture_start_time, backend, device_open, sample_rate,
                           buffer_duration_ms, audio_buffer, buffer_pos, buffer_len,
                           capture_running, written, next_sample, block_len>>
       ELSE /\ ClearBuffer
            /\ capture_start_time' = now
            /\ listening_state' = "kCapturing"
            /\ ret' = "true"
            /\ emitted' = SetListeningState(listening_state, "kCapturing")
                              \o << <<"captureStarted">> >>
            /\ tick' = tick
            /\ capture_open' = TRUE
            /\ UNCHANGED <<surface, config, initialized, running, nlu_engine, strategy,
                           has_parameterized, audio_running, timer_active, wake_elapsed,
                           audio_queue>>

\* QtVoiceAssistant::stopCapture with the audio engine: the last
\* now - capture_start_time_ milliseconds are fetched and queued as one
\* window, and the buffer is cleared.
Ptt_stopCapture ==
    /\ main_pc = "idle"
    /\ surface = "qt"
    /\ last_op' = "stopCapture"
    /\ UNCHANGED <<disp_vars, reg_vars, time_vars, nlu_vars, vad_vars, last_taken>>
    /\ IF stopCapture_Rejected
       THEN /\ ret' = "false"
            /\ emitted' = << >>
            /\ UNCHANGED <<tick, capture_open>>
            /\ enq' = 0
            /\ UNCHANGED <<orch_vars, thread_vars, next_id, cap_vars>>
       ELSE LET duration_ms == now - capture_start_time
            IN  /\ get_duration' = duration_ms
                /\ samples' = IF device_open /\ capture_running
                              THEN GetAudioSamples(audio_buffer, buffer_pos, buffer_len,
                                                   sample_rate, buffer_duration_ms, duration_ms)
                              ELSE << >>
                /\ Enqueue
                /\ ClearBuffer
                /\ listening_state' = "kIdle"
                /\ ret' = "true"
                /\ enq' = next_id
                /\ emitted' = QueueAudio_Emitted(audio_queue, config.max_queue_depth)
                                  \o SetListeningState(listening_state, "kIdle")
                                  \o << <<"captureEnded">> >>
                /\ tick' = tick
                /\ capture_open' = FALSE
                /\ UNCHANGED <<surface, config, initialized, running, nlu_engine, strategy,
                               has_parameterized, audio_running, timer_active, wake_elapsed,
                               main_pc, main_call, worker_item, strategy_destroyed, audio_pc>>

\* After Init and Start in kPushToTalk mode, capturing at 1000 Hz into a
\* buffer of 3 ms.
PttInit ==
    /\ surface = "qt"
    /\ config = MkConfig("kPushToTalk", "")
    /\ initialized = TRUE
    /\ running = TRUE
    /\ nlu_engine = FALSE
    /\ strategy = "guided"
    /\ has_parameterized = FALSE
    /\ audio_running = TRUE
    /\ timer_active = TRUE
    /\ listening_state = InitialListeningState("kPushToTalk")
    /\ wake_elapsed = 0
    /\ audio_queue = << >>
    /\ main_pc = "idle"
    /\ main_call = "none"
    /\ worker_pc = "blocked"
    /\ worker_item = 0
    /\ audio_pc = "none"
    /\ strategy_destroyed = FALSE
    /\ next_id = 1
    /\ last_taken = 0
    /\ last_op = "Start"
    /\ ret = "true"
    /\ emitted = << >>
    /\ enq = 0
    /\ tick = NoTick
    /\ capture_open = FALSE
    /\ DispIdle
    /\ RegIdle
    /\ backend = "qt"
    /\ device_open = TRUE
    /\ sample_rate = 1000
    /\ buffer_duration_ms = 3
    /\ audio_buffer = [i \in 0..(BufferSize(1000, 3) - 1) |-> StoredSample("qt", 0)]
    /\ buffer_pos = 0
    /\ buffer_len = 0
    /\ capture_running = TRUE
    /\ written = << >>
    /\ next_sample = 1
    /\ samples = << >>
    /\ get_duration = 0
    /\ block_len = 0
    /\ now = 0
    /\ capture_start_time = 0
    /\ NluIdle /\ VadIdle

PttNext ==
    \/ Tick
    \/ \E n \in 1..MaxBlock : Deliver(n)
    \/ Ptt_startCapture
    \/ Ptt_stopCapture

PttSpec == PttInit /\ [][PttNext]_vars

\* C25: the window queued by a successful stopCapture holds as many samples
\* as the time between startCapture and stopCapture multiplied by the sample
\* rate, to within one poll interval's worth of samples.
C25_PttWindowLength ==
    [][last_op' = "stopCapture" /\ ret' = "true"
         => LET expected == SamplesIn(now - capture_start_time)
                tolerance == SamplesIn(PollIntervalMs)
            IN  /\ Len(samples') >= expected - tolerance
                /\ Len(samples') <= expected + tolerance]_vars


\* C26: once a registered command whose one parameter is an Integer has been
\* dispatched with a value for it, the handler was invoked if and only if the
\* whole string parses as an integer v with min <= v <= max for the bounds
\* that are set, integral or not; otherwise the result is InvalidParams and
\* the handler was not invoked.
C26_IntegerRange ==
    (/\ dispatch_pc = "done"
     /\ FindCommand(dispatch_name)
     /\ Len(commands[dispatch_name].parameters) = 1
     /\ commands[dispatch_name].parameters[1].type = "kInteger"
     /\ HasParam(dispatch_context, commands[dispatch_name].parameters[1].name))
    => LET param == commands[dispatch_name].parameters[1]
       IN  IF PassesCheck(param, dispatch_context[param.name])
           THEN executed = 1
           ELSE executed = 0 /\ dispatch_result = "kInvalidParams"


(***************************************************************************)
(* Part IV.  The rule-based NLU engine and the CommandTester.              *)
(*                                                                         *)
(* Strings are sequences of characters; the whitespace of the model is the *)
(* space and its word characters are letters and digits.  A float          *)
(* confidence is an exact fraction <<numerator, denominator>>.             *)
(***************************************************************************)
\* a < b for fractions with positive denominators.
Less(a, b) == a[1] * b[2] < b[1] * a[2]

\* The characters of a command or parameter name.
Chars(name) ==
    CASE name = "zoom_to" -> <<"z", "o", "o", "m", "_", "t", "o">>
      [] name = "move_to" -> <<"m", "o", "v", "e", "_", "t", "o">>
      [] name = "level" -> <<"l", "e", "v", "e", "l">>
      [] OTHER -> <<name>>

\* Trim: whitespace removed from both ends.
Trim(str) ==
    LET keep == {i \in DOMAIN str : str[i] # " "}
    IN  IF keep = {} THEN << >>
        ELSE SubSeq(str, CHOOSE i \in keep : \A j \in keep : i <= j,
                         CHOOSE i \in keep : \A j \in keep : i >= j)

\* Normalize: ToLower(Trim(str)), as a sequence.
Normalize(str) ==
    LET lowered == ToLower(Trim(str)) IN SubSeq(lowered, 1, Len(lowered))

\* std::replace(begin, end, '_', ' ').
ReplaceUnderscores(str) ==
    SubSeq([i \in DOMAIN str |-> IF str[i] = "_" THEN " " ELSE str[i]], 1, Len(str))

\* std::string::find: the 0-based position of the first occurrence of substr
\* in text, -1 for npos.
Find(text, substr) ==
    LET hits == {p \in 0..(Len(text) - Len(substr)) :
                    SubSeq(text, p + 1, p + Len(substr)) = substr}
    IN  IF hits = {} THEN -1 ELSE CHOOSE p \in hits : \A q \in hits : p <= q

ContainsIgnoreCase(text, substr) == Find(ToLower(text), ToLower(substr)) # -1

FindKeyword(text, keyword) == Find(ToLower(text), ToLower(keyword))

\* ComputeSimilarity, the row dp[i] of the Levenshtein table from the row
\* prev = dp[i-1]; row holds dp[i][0..j-1], so Len(row) = j (the test has
\* the row evaluated before the next entry is added).
RECURSIVE DpRow(_, _, _, _, _)
DpRow(a_i, b, prev, row, j) ==
    IF j > Len(b) \/ Len(row) # j THEN row
    ELSE LET cost == IF a_i = b[j] THEN 0 ELSE 1
             deletion == prev[j + 1] + 1
             insertion == row[j] + 1
             substitution == prev[j] + cost
         IN  DpRow(a_i, b, prev,
                   Append(row, Min(Min(deletion, insertion), substitution)), j + 1)

\* dp[Len(a)][Len(b)], from the row prev = dp[i-1], which has Len(b) + 1
\* entries.
RECURSIVE Levenshtein(_, _, _, _)
Levenshtein(a, b, i, prev) ==
    IF i > Len(a) \/ Len(prev) # Len(b) + 1 THEN prev[Len(b) + 1]
    ELSE Levenshtein(a, b, i + 1, DpRow(a[i], b, prev, <<i>>, 1))

\* ComputeSimilarity: 1 - distance / max(m, n).
ComputeSimilarity(a, b) ==
    IF a = << >> /\ b = << >> THEN <<1, 1>>
    ELSE IF a = << >> \/ b = << >> THEN <<0, 1>>
    ELSE LET distance == Levenshtein(a, b, 1, [j \in 1..(Len(b) + 1) |-> j - 1])
             max_len == IF Len(a) >= Len(b) THEN Len(a) ELSE Len(b)
         IN  <<max_len - distance, max_len>>

\* Mutant of BoostedScore.
BoostedScore_Unboosted(score) == score

\* MatchIntent: std::max(score, 0.8f), applied when the transcript contains
\* the trigger.
BoostedScore(score) == IF Less(score, <<4, 5>>) THEN <<4, 5>> ELSE score

\* MatchIntent, the loop over the trigger phrases of one descriptor.
RECURSIVE MatchTriggers(_, _, _, _)
MatchTriggers(normalized_transcript, descriptor, i, best_match) ==
    IF i > Len(descriptor.trigger_phrases) THEN best_match
    ELSE LET trigger == descriptor.trigger_phrases[i]
             normalized_trigger == Normalize(trigger)
             similarity == ComputeSimilarity(normalized_transcript, normalized_trigger)
             score == IF ContainsIgnoreCase(normalized_transcript, normalized_trigger)
                      THEN BoostedScore(similarity)
                      ELSE similarity
         IN  MatchTriggers(normalized_transcript, descriptor, i + 1,
                           IF Less(best_match.confidence, score)
                           THEN [descriptor |-> descriptor.name, confidence |-> score,
                                 matched_trigger |-> trigger]
                           ELSE best_match)

\* MatchIntent, the loop over the descriptors: the trigger phrases, then the
\* command name with its underscores as spaces.
RECURSIVE MatchDescriptors(_, _, _, _)
MatchDescriptors(normalized_transcript, schemas, k, best_match) ==
    IF k > Len(schemas) THEN best_match
    ELSE LET descriptor == schemas[k]
             by_trigger == MatchTriggers(normalized_transcript, descriptor, 1, best_match)
             normalized_name == ReplaceUnderscores(Normalize(Chars(descriptor.name)))
             name_score == ComputeSimilarity(normalized_transcript, normalized_name)
         IN  MatchDescriptors(normalized_transcript, schemas, k + 1,
                              IF Less(by_trigger.confidence, name_score)
                              THEN [descriptor |-> descriptor.name, confidence |-> name_score,
                                    matched_trigger |-> ReplaceUnderscores(Chars(descriptor.name))]
                              ELSE by_trigger)

MatchIntent(transcript, schemas) ==
    MatchDescriptors(Normalize(transcript), schemas, 1, DefaultIntentMatch)

\* operator>> on a stream, repeated: the whitespace-separated words of str.
RECURSIVE Words(_)
Words(str) ==
    LET start == SkipSpace(str, 1)
        spaces == {i \in start..Len(str) : str[i] = " "}
        end == IF spaces = {} THEN Len(str) + 1
               ELSE CHOOSE i \in spaces : \A j \in spaces : i <= j
    IN  IF start > Len(str) THEN << >>
        ELSE <<SubSeq(str, start, end - 1)>> \o Words(SubSeq(str, end, Len(str)))

\* The words from the i-th on, joined by single spaces.
RECURSIVE JoinWords(_, _)
JoinWords(words, i) ==
    IF i > Len(words) THEN << >>
    ELSE IF i = Len(words) THEN words[i]
    ELSE words[i] \o <<" ">> \o JoinWords(words, i + 1)

\* ExtractArgumentsRegion, the word-by-word match: the fraction of the
\* trigger's words found at the window that starts at word start (0-based).
MatchScore(transcript_words, trigger_words, start) ==
    <<Cardinality({i \in 1..Len(trigger_words) :
                      /\ start + i <= Len(transcript_words)
                      /\ transcript_words[start + i] = trigger_words[i]}),
      Len(trigger_words)>>

\* ExtractArgumentsRegion: returns is FALSE when the call does not come back.
\* The loop over the windows runs for start = 0 .. transcript_words.size() -
\* trigger_words.size(), a size_t difference: with more trigger words than
\* transcript words it wraps to about 2^64 and the loop does not end in any
\* time a caller can wait.
ExtractArgumentsRegion(transcript, matched_trigger) ==
    LET normalized_transcript == Normalize(transcript)
        normalized_trigger == Normalize(matched_trigger)
        trigger_pos == Find(normalized_transcript, normalized_trigger)
        transcript_words == Words(normalized_transcript)
        trigger_words == Words(normalized_trigger)
        starts == 0..(Len(transcript_words) - Len(trigger_words))
        \* the first window with the highest score above 0, else window 0
        scoring == {s \in starts :
                       Less(<<0, 1>>, MatchScore(transcript_words, trigger_words, s))}
        best_start ==
            IF scoring = {} THEN 0
            ELSE CHOOSE s \in scoring :
                    \A t \in scoring :
                        LET ms == MatchScore(transcript_words, trigger_words, s)
                            mt == MatchScore(transcript_words, trigger_words, t)
                        IN  Less(mt, ms) \/ (~Less(ms, mt) /\ s <= t)
        best_match_score ==
            IF scoring = {} THEN <<0, 1>>
            ELSE MatchScore(transcript_words, trigger_words, best_start)
    IN  IF trigger_pos # -1
        THEN [returns |-> TRUE,
              region |-> LET args_start == SkipSpace(normalized_transcript,
                                                     trigger_pos + Len(normalized_trigger) + 1)
                         IN  SubSeq(normalized_transcript, args_start,
                                    Len(normalized_transcript))]
        ELSE IF trigger_words = << >>
        THEN [returns |-> TRUE, region |-> normalized_transcript]
        ELSE IF Len(trigger_words) > Len(transcript_words)
        THEN [returns |-> FALSE, region |-> << >>]
        ELSE IF ~Less(best_match_score, <<1, 2>>)
        THEN [returns |-> TRUE,
              region |-> JoinWords(transcript_words, best_start + Len(trigger_words) + 1)]
        ELSE [returns |-> TRUE, region |-> normalized_transcript]

\* FindIntegers: the matches of \b(\d+)\b from the 0-based position p on, as
\* pairs <<value, position>>: the words that consist of digits only.
RECURSIVE FindIntegersFrom(_, _)
FindIntegersFrom(text, p) ==
    IF p >= Len(text) THEN << >>
    ELSE LET end == DigitsEnd(text, p + 1)
             boundary_before == p = 0 \/ text[p] = " "
             boundary_after == end > Len(text) \/ text[end] = " "
         IN  IF end > p + 1 /\ boundary_before /\ boundary_after
             THEN << <<SubSeq(text, p + 1, end - 1), p>> >> \o FindIntegersFrom(text, end - 1)
             ELSE FindIntegersFrom(text, p + 1)

FindIntegers(text) == FindIntegersFrom(text, 0)

\* ExtractParamValue, the loop over the integers: the first of those at the
\* smallest distance from the keyword.
RECURSIVE ClosestValue(_, _, _, _, _)
ClosestValue(integers, keyword_pos, i, min_distance, closest_value) ==
    IF i > Len(integers) THEN closest_value
    ELSE LET pos == integers[i][2]
             distance == IF pos > keyword_pos THEN pos - keyword_pos ELSE keyword_pos - pos
         IN  IF min_distance = -1 \/ distance < min_distance
             THEN ClosestValue(integers, keyword_pos, i + 1, distance, integers[i][1])
             ELSE ClosestValue(integers, keyword_pos, i + 1, min_distance, closest_value)

\* ExtractParamValue for an Integer parameter (the descriptors of this part
\* declare no parameter of another type); << >> is the empty string.
ExtractParamValue(transcript, param) ==
    LET text == Normalize(transcript)
        integers == FindIntegers(text)
        param_keyword == ReplaceUnderscores(ToLower(Chars(param.name)))
        keyword_pos == FindKeyword(text, param_keyword)
    IN  IF param.type # "kInteger" \/ integers = << >> THEN << >>
        ELSE IF Len(integers) = 1 THEN integers[1][1]
        ELSE IF keyword_pos = -1 THEN integers[1][1]
        ELSE ClosestValue(integers, keyword_pos, 1, -1, << >>)

\* ExtractParams: the parameters whose extracted value is not empty.
ExtractParams(transcript, descriptor) ==
    LET found == {i \in DOMAIN descriptor.parameters :
                     ExtractParamValue(transcript, descriptor.parameters[i]) # << >>}
    IN  [name \in {descriptor.parameters[i].name : i \in found} |->
            ExtractParamValue(transcript,
                CHOOSE p \in {descriptor.parameters[i] : i \in found} : p.name = name)]

\* Mutant of Process_Rejected.
Process_Rejected_NoThreshold(match, threshold) == match.descriptor = ""

\* Process: no descriptor matched, or the best confidence is below
\* min_confidence_.
Process_Rejected(match, threshold) ==
    match.descriptor = "" \/ Less(match.confidence, threshold)

\* ExtractArgumentsRegion, every outcome of the call.  With one trigger word
\* more than transcript words the loop bound is SIZE_MAX, the loop has no
\* exit and no side effect, and the language leaves the behaviour
\* undefined: the call stays in the loop, or the loop is left and one of
\* the returns after it is taken (the empty string of line 206, there being
\* no word after a window of trigger_words.size() words, or the transcript
\* of line 210).
ArgumentsRegionOutcomes(transcript, matched_trigger) ==
    LET call == ExtractArgumentsRegion(transcript, matched_trigger)
        normalized_transcript == Normalize(transcript)
    IN  IF ~call.returns
           /\ Len(Words(Normalize(matched_trigger))) = Len(Words(normalized_transcript)) + 1
        THEN {call, [returns |-> TRUE, region |-> << >>],
              [returns |-> TRUE, region |-> normalized_transcript]}
        ELSE {call}

\* RuleBasedNluEngine::Process with min_confidence_ = threshold, its call of
\* ExtractArgumentsRegion having the outcome args_region: the intent match,
\* whether the call returns, and the result it returns.
ProcessFrom(transcript, schemas, threshold, args_region) ==
    LET match == MatchIntent(transcript, schemas)
        descriptor == CHOOSE d \in {schemas[k] : k \in DOMAIN schemas} :
                          d.name = match.descriptor
    IN  IF transcript = << >>
        THEN [returns |-> TRUE, match |-> DefaultIntentMatch,
              result |-> [DefaultNluResult EXCEPT !.error_message = "Empty transcript"]]
        ELSE IF schemas = << >>
        THEN [returns |-> TRUE, match |-> DefaultIntentMatch,
              result |-> [DefaultNluResult EXCEPT
                             !.error_message = "No command schemas provided"]]
        ELSE IF Process_Rejected(match, threshold)
        THEN [returns |-> TRUE, match |-> match,
              result |-> [DefaultNluResult EXCEPT
                             !.error_message =
                                 "No matching command found (confidence too low)"]]
        ELSE IF ~args_region.returns
        THEN [returns |-> FALSE, match |-> match, result |-> DefaultNluResult]
        ELSE [returns |-> TRUE, match |-> match,
              result |-> [success |-> TRUE,
                          command_name |-> match.descriptor,
                          confidence |-> match.confidence,
                          extracted_params |-> ExtractParams(args_region.region, descriptor),
                          error_message |-> ""]]

\* Process, the loop of ExtractArgumentsRegion run as it is written.
Process(transcript, schemas, threshold) ==
    ProcessFrom(transcript, schemas, threshold,
                ExtractArgumentsRegion(transcript,
                                       MatchIntent(transcript, schemas).matched_trigger))

\* Process, every outcome of the call.
ProcessOutcomes(transcript, schemas, threshold) ==
    {ProcessFrom(transcript, schemas, threshold, args_region) :
        args_region \in ArgumentsRegionOutcomes(
                            transcript, MatchIntent(transcript, schemas).matched_trigger)}


\* Mutant of ProcessText_BelowThreshold.
ProcessText_BelowThreshold_Never(confidence, threshold) == FALSE

\* ProcessText: nlu_result.confidence < min_confidence_.
ProcessText_BelowThreshold(confidence, threshold) == Less(confidence, threshold)

\* Two commands of examples/command_test_example.cpp, one trigger phrase each.
NluDescriptors ==
    {[name |-> "zoom_to", trigger_phrases |-> <<<<"z", "o", "o", "m", " ", "t", "o">>>>,
      parameters |-> <<ParamDescriptor("level", "kInteger", TRUE, << >>, << >>,
                                       {100}, {2000})>>],
     [name |-> "move_to", trigger_phrases |-> <<<<"m", "o", "v", "e", " ", "t", "o">>>>,
      parameters |-> <<ParamDescriptor("x", "kInteger", TRUE, << >>, << >>, {}, {}),
                       ParamDescriptor("y", "kInteger", TRUE, << >>, << >>, {}, {})>>]}

\* The transcripts handed to the engine and to the tester.
Transcripts ==
    {<< >>,
     <<"g", "i", "b", "b", "e", "r", "i", "s", "h">>,
     <<"z", "o", "o", "m">>,
     <<"z", "o", "o", "m", " ", "t", "o">>,
     <<"Z", "o", "o", "m", " ", "T", "o", " ", "1", "5", " ">>,
     <<"z", "o", "o", "m", " ", "t", "o", " ", "2", "5">>,
     <<"z", "o", "o", "m", " ", "t", "a", " ", "5">>,
     <<"m", "o", "v", "e", " ", "t", "o", " ", "3", " ", "4">>,
     <<"m", "o", "v", "e", " ", "t", "o", " ", "x", " ", "5", " ", "y", " ", "7">>,
     <<"m", "o", "v", "e", " ", "t", "o", " ", "x", " ", "1", "2", " ", "y", " ", "7">>}

\* The sequences that list every element of the set once.
Orderings(set) ==
    {seq \in [1..Cardinality(set) -> set] : \A i, j \in DOMAIN seq : seq[i] = seq[j] => i = j}

\* What the NLU actions leave alone.
NluObs(op) ==
    /\ last_op' = op
    /\ ret' = "void"
    /\ emitted' = << >>
    /\ UNCHANGED <<tick, capture_open>>
    /\ enq' = 0
    /\ UNCHANGED <<next_id, last_taken>>
    /\ UNCHANGED <<orch_vars, thread_vars, reg_vars, cap_vars, time_vars, vad_vars>>

\* The engine is either called directly, or configured and handed to a
\* tester (CommandTester::Init takes it over); the two uses are explored
\* apart.  No tester call has been made:
EngineOwned == last_op \in {"construct", "SetMinConfidence", "Process"}

\* No Process call has been made on the engine directly:
EngineUnused == EngineOwned => nlu_pc = "idle"

\* The tester is set up (Init, Register, SetMinConfidence) and then
\* processes a text; Process and ProcessText keep nothing from one call to
\* the next, so one call is explored from each configuration.  No text has
\* been processed:
TesterSetup == EngineUnused /\ last_op # "ProcessText"

\* RuleBasedNluEngine::SetMinConfidence.
SetMinConfidence(threshold) ==
    /\ nlu_pc = "idle"
    /\ EngineOwned
    /\ min_confidence' = threshold
    /\ NluObs("SetMinConfidence")
    /\ UNCHANGED <<disp_vars, nlu_transcript, nlu_schemas, intent_match, nlu_result, nlu_pc,
                   tester_initialized, tester_min_confidence, test_result>>

\* RuleBasedNluEngine::Process(transcript, schemas), called on an engine its
\* creator still owns.
Nlu_Process(transcript, schemas) ==
    /\ nlu_pc = "idle"
    /\ EngineOwned
    /\ nlu_transcript' = transcript
    /\ nlu_schemas' = schemas
    /\ \E call \in ProcessOutcomes(transcript, schemas, min_confidence) :
           /\ intent_match' = call.match
           /\ nlu_result' = call.result
           /\ nlu_pc' = IF call.returns THEN "returned" ELSE "looping"
    /\ NluObs("Process")
    /\ UNCHANGED <<disp_vars, min_confidence, tester_initialized, tester_min_confidence,
                   test_result>>

\* CommandTester::Init(nlu_engine) with the engine: a fresh registry and
\* dispatcher.
Tester_Init ==
    /\ TesterSetup
    /\ ~tester_initialized
    /\ tester_initialized' = TRUE
    /\ NluObs("Tester_Init")
    /\ UNCHANGED <<disp_vars, nlu_transcript, nlu_schemas, min_confidence, intent_match,
                   nlu_result, nlu_pc, tester_min_confidence, test_result>>

\* GetRegistry()->Register(descriptor, command) on an initialised tester.
Tester_Register(descriptor) ==
    /\ TesterSetup
    /\ tester_initialized
    /\ Register(descriptor, "handler_a")

\* CommandTester::SetMinConfidence.
Tester_SetMinConfidence(threshold) ==
    /\ TesterSetup
    /\ tester_min_confidence' = threshold
    /\ NluObs("Tester_SetMinConfidence")
    /\ UNCHANGED <<disp_vars, nlu_transcript, nlu_schemas, min_confidence, intent_match,
                   nlu_result, nlu_pc, tester_initialized, test_result>>

\* CommandTester::ProcessText(transcript); the handler's Execute returns any
\* CommandResult.  nlu_result is the local of that name (default-constructed
\* on the paths that return before it exists); executed counts the handler
\* invocations of this call, and dispatch_result is "none" when Dispatch was not
\* called.
ProcessText(transcript) ==
    /\ TesterSetup
    /\ nlu_transcript' = transcript
    /\ NluObs("ProcessText")
    /\ UNCHANGED <<commands, dispatch_pc, min_confidence, tester_initialized,
                   tester_min_confidence>>
    /\ LET result == [DefaultTestResult EXCEPT !.raw_transcript = transcript]
           NotRun(error) ==
               /\ test_result' = [result EXCEPT !.error = error]
               /\ nlu_result' = DefaultNluResult
               /\ intent_match' = DefaultIntentMatch
               /\ nlu_pc' = "returned"
               /\ dispatch_result' = "none"
               /\ executed' = 0
               /\ UNCHANGED <<nlu_schemas, dispatch_name, dispatch_context, handler_context,
                              handler_returned, dispatch_locals>>
       IN  IF ~tester_initialized
           THEN NotRun("CommandTester not initialized. Call Init() first.")
           ELSE IF transcript = << >>
           THEN NotRun("Empty transcript")
           ELSE IF DOMAIN commands = {}
           THEN NotRun("No commands registered")
           ELSE \E descriptors \in Orderings({commands[n] : n \in DOMAIN commands}) :
               \E call \in ProcessOutcomes(transcript, descriptors, min_confidence) :
                   LET v == ValidateAndFillDefaults(FindDescriptor(call.result.command_name),
                                                    call.result.extracted_params)
                   IN  /\ nlu_schemas' = descriptors
                       /\ intent_match' = call.match
                       /\ IF ~call.returns
                          THEN /\ nlu_pc' = "looping"
                               /\ UNCHANGED <<nlu_result, test_result, dispatch_name,
                                              dispatch_context, dispatch_result, executed,
                                              handler_context, handler_returned, dispatch_locals>>
                          ELSE /\ nlu_pc' = "returned"
                               /\ nlu_result' = call.result
                               /\ IF ~call.result.success
                                  THEN /\ test_result' =
                                              [result EXCEPT !.error = call.result.error_message]
                                       /\ dispatch_result' = "none"
                                       /\ executed' = 0
                                       /\ UNCHANGED <<dispatch_name, dispatch_context,
                                                      handler_context, handler_returned, dispatch_locals>>
                                  ELSE IF ProcessText_BelowThreshold(call.result.confidence,
                                                                     tester_min_confidence)
                                  THEN /\ test_result' =
                                              [result EXCEPT
                                                  !.error = "Confidence below threshold"]
                                       /\ dispatch_result' = "none"
                                       /\ executed' = 0
                                       /\ UNCHANGED <<dispatch_name, dispatch_context,
                                                      handler_context, handler_returned, dispatch_locals>>
                                  ELSE /\ dispatch_name' = call.result.command_name
                                       /\ dispatch_context' = call.result.extracted_params
                                       /\ IF ~v.ok
                                          THEN /\ dispatch_result' = "kInvalidParams"
                                               /\ executed' = 0
                                               /\ UNCHANGED <<handler_context,
                                                              handler_returned, dispatch_locals>>
                                          ELSE \E handler_result \in CommandResult :
                                                  /\ dispatch_result' = handler_result
                                                  /\ executed' = 1
                                                  /\ handler_context' = v.params
                                                  /\ handler_returned' = handler_result
                                                  /\ UNCHANGED dispatch_locals
                                       /\ test_result' =
                                              [result EXCEPT
                                                  !.recognized = TRUE,
                                                  !.command_name = call.result.command_name,
                                                  !.confidence = call.result.confidence,
                                                  !.params = call.result.extracted_params,
                                                  !.execution_result = dispatch_result']

NluInit == OrchInit({"qt"}) /\ DispIdle /\ RegIdle /\ CapIdle({"sdl"}) /\ NluIdle /\ VadIdle

NluNext ==
    \/ \E threshold \in {<<1, 2>>, <<9, 10>>} : SetMinConfidence(threshold)
    \/ \E transcript \in Transcripts,
          schemas \in UNION {Orderings(set) : set \in SUBSET NluDescriptors} :
           Nlu_Process(transcript, schemas)
    \/ Tester_Init
    \/ \E descriptor \in NluDescriptors : Tester_Register(descriptor)
    \/ \E threshold \in {<<1, 2>>, <<9, 10>>} : Tester_SetMinConfidence(threshold)
    \/ \E transcript \in Transcripts : ProcessText(transcript)

NluSpec == NluInit /\ [][NluNext]_vars


(***************************************************************************)
(* Claims about the rule-based NLU engine and the CommandTester.           *)
(***************************************************************************)
\* A Process call made on the engine has returned.
ProcessReturned == last_op = "Process" /\ nlu_pc = "returned"

\* Some supplied descriptor has a trigger phrase that, lowercased and
\* trimmed, is a substring of the lowercased, trimmed transcript.
TriggerContained ==
    \E k \in DOMAIN nlu_schemas :
        \E i \in DOMAIN nlu_schemas[k].trigger_phrases :
            Find(Normalize(nlu_transcript), Normalize(nlu_schemas[k].trigger_phrases[i])) # -1

\* C27 as stated: when a supplied descriptor has a trigger phrase that,
\* lowercased and trimmed, is a substring of the lowercased, trimmed
\* transcript, the intent-match confidence is at least 0.8 and so is the
\* confidence Process returns.
C27_TriggerSubstringConfidence ==
    (ProcessReturned /\ TriggerContained)
    => /\ ~Less(MatchIntent(nlu_transcript, nlu_schemas).confidence, <<4, 5>>)
       /\ ~Less(nlu_result.confidence, <<4, 5>>)

\* C27, amended: under the same condition the intent-match confidence is at
\* least 0.8; Process returns success with that confidence when it is at
\* least min_confidence, and success=false with confidence 0 when
\* min_confidence has been set above it.
C27_TriggerSubstringConfidence_Amended ==
    (ProcessReturned /\ TriggerContained)
    => LET match == MatchIntent(nlu_transcript, nlu_schemas)
       IN  /\ ~Less(match.confidence, <<4, 5>>)
           /\ IF Less(match.confidence, min_confidence)
              THEN ~nlu_result.success /\ nlu_result.confidence = <<0, 1>>
              ELSE /\ nlu_result.success
                   /\ nlu_result.confidence = match.confidence
                   /\ ~Less(nlu_result.confidence, <<4, 5>>)

\* A transcript that contains a trigger and is less than 0.8 similar to it
\* was processed with success.
C27_Witness ==
    /\ ProcessReturned
    /\ TriggerContained
    /\ nlu_result.success
    /\ nlu_result.confidence = <<4, 5>>
    /\ nlu_transcript = <<"m", "o", "v", "e", " ", "t", "o", " ", "x", " ", "5", " ", "y", " ", "7">>

\* C28: a Process call that returns gives success=false and no command name
\* when the transcript is empty, when no descriptor is supplied, or when the
\* best intent score is below min_confidence; when it gives success=true the
\* confidence is at least min_confidence and command_name is the name of one
\* of the supplied descriptors.
C28_ProcessOutcome ==
    ProcessReturned
    => /\ (\/ nlu_transcript = << >>
           \/ nlu_schemas = << >>
           \/ Less(MatchIntent(nlu_transcript, nlu_schemas).confidence, min_confidence))
          => ~nlu_result.success /\ nlu_result.command_name = ""
       /\ nlu_result.success
          => /\ ~Less(nlu_result.confidence, min_confidence)
             /\ \E k \in DOMAIN nlu_schemas : nlu_schemas[k].name = nlu_result.command_name

\* A transcript was rejected because its best score is below min_confidence.
C28_Witness ==
    /\ ProcessReturned
    /\ nlu_transcript # << >>
    /\ nlu_schemas # << >>
    /\ intent_match.descriptor # ""
    /\ Less(intent_match.confidence, min_confidence)
    /\ ~nlu_result.success

\* The integer tokens of the argument region of the processed transcript.
RegionIntegers ==
    FindIntegers(Normalize(ExtractArgumentsRegion(nlu_transcript,
                                                  intent_match.matched_trigger).region))

\* The position of a parameter's name, underscores as spaces, in the
\* argument region; -1 when it does not occur.
RegionKeywordPos(param) ==
    Find(Normalize(ExtractArgumentsRegion(nlu_transcript,
                                          intent_match.matched_trigger).region),
         ReplaceUnderscores(ToLower(Chars(param.name))))

\* C29: after a successful Process, for every Integer parameter of the
\* matched command: one integer token in the argument region is the value;
\* of several, the value is the first when the parameter's name does not
\* occur in the region and one closest to the name when it does; and
\* 'move to x A y B' gives x = A and y = B.
C29_IntegerExtraction ==
    (ProcessReturned /\ nlu_result.success)
    => LET descriptor == CHOOSE d \in {nlu_schemas[k] : k \in DOMAIN nlu_schemas} :
                             d.name = nlu_result.command_name
           Value(param) == IF param.name \in DOMAIN nlu_result.extracted_params
                           THEN nlu_result.extracted_params[param.name]
                           ELSE << >>
           Distance(i, param) ==
               IF RegionIntegers[i][2] > RegionKeywordPos(param)
               THEN RegionIntegers[i][2] - RegionKeywordPos(param)
               ELSE RegionKeywordPos(param) - RegionIntegers[i][2]
       IN  /\ \A p \in DOMAIN descriptor.parameters :
                  LET param == descriptor.parameters[p]
                  IN  /\ Len(RegionIntegers) = 1 => Value(param) = RegionIntegers[1][1]
                      /\ (Len(RegionIntegers) > 1 /\ RegionKeywordPos(param) = -1)
                             => Value(param) = RegionIntegers[1][1]
                      /\ (Len(RegionIntegers) > 1 /\ RegionKeywordPos(param) # -1)
                             => \E i \in DOMAIN RegionIntegers :
                                    /\ Value(param) = RegionIntegers[i][1]
                                    /\ \A j \in DOMAIN RegionIntegers :
                                           Distance(i, param) <= Distance(j, param)
           /\ \A a, b \in {<<"5">>, <<"7">>, <<"1", "2">>} :
                  nlu_transcript = <<"m", "o", "v", "e", " ", "t", "o", " ", "x", " ">> \o a \o <<" ", "y", " ">> \o b
                      => /\ nlu_result.command_name = "move_to"
                         /\ nlu_result.extracted_params = [x |-> a, y |-> b]

\* A ProcessText call has returned.
ProcessTextReturned == last_op = "ProcessText" /\ nlu_pc = "returned"

\* C30: ProcessText reports recognized=true and dispatches the command if and
\* only if the NLU stage succeeded with a confidence of at least the tester's
\* min_confidence, and then execution_result is whatever Dispatch returned;
\* otherwise recognized is false, no handler was executed, execution_result is
\* NotHandled and error is not empty.
C30_TesterRecognition ==
    ProcessTextReturned
    => IF nlu_result.success /\ ~Less(nlu_result.confidence, tester_min_confidence)
       THEN /\ test_result.recognized
            /\ dispatch_result # "none"
            /\ dispatch_name = nlu_result.command_name
            /\ test_result.command_name = nlu_result.command_name
            /\ test_result.execution_result = dispatch_result
       ELSE /\ ~test_result.recognized
            /\ dispatch_result = "none"
            /\ executed = 0
            /\ test_result.execution_result = "kNotHandled"
            /\ test_result.error # ""

\* 'zoom to 25' with level in [1, 20]: recognised, dispatched, and rejected
\* by the dispatcher without a handler execution.
C30_Witness ==
    /\ ProcessTextReturned
    /\ nlu_transcript = <<"z", "o", "o", "m", " ", "t", "o", " ", "2", "5">>
    /\ test_result.recognized
    /\ test_result.execution_result = "kInvalidParams"
    /\ executed = 0

(***************************************************************************)
(* Part V: the energy-based voice activity detector                        *)
(* (src/src/audio_capture/vad/simple_vad.cpp).  A sample is an integer     *)
(* amplitude; the floats computed from the samples are exact fractions     *)
(* <<numerator, denominator>> in lowest terms, and <<0, 0>> stands for the *)
(* NaN that 0.0f / 0.0f gives.                                             *)
(***************************************************************************)
RECURSIVE Gcd(_, _)
Gcd(a, b) == IF b = 0 THEN a ELSE Gcd(b, a % b)

Abs(x) == IF x < 0 THEN -x ELSE x

\* The fraction n / d in lowest terms, with a positive denominator.
Frac(n, d) ==
    IF d = 0 THEN <<0, 0>>
    ELSE LET g == Gcd(Abs(n), Abs(d))
             sign == IF d < 0 THEN -1 ELSE 1
         IN  <<sign * (n \div g), sign * (d \div g)>>

IsNaN(a) == a[2] = 0
FAdd(a, b) == IF IsNaN(a) \/ IsNaN(b) THEN <<0, 0>> ELSE Frac(a[1] * b[2] + b[1] * a[2], a[2] * b[2])
FSub(a, b) == IF IsNaN(a) \/ IsNaN(b) THEN <<0, 0>> ELSE Frac(a[1] * b[2] - b[1] * a[2], a[2] * b[2])
FMul(a, b) == IF IsNaN(a) \/ IsNaN(b) THEN <<0, 0>> ELSE Frac(a[1] * b[1], a[2] * b[2])
FAbs(a) == <<Abs(a[1]), a[2]>>
\* a / n for an integer n: 0 / 0 is NaN.
FDivInt(a, n) == IF IsNaN(a) \/ n = 0 THEN <<0, 0>> ELSE Frac(a[1], a[2] * n)
\* a <= b: false when either side is NaN.
LessEq(a, b) == ~IsNaN(a) /\ ~IsNaN(b) /\ a[1] * b[2] <= b[1] * a[2]

\* alpha = dt / (rc + dt) with rc = 1 / (2 pi cutoff) and dt = 1 / sample_rate,
\* that is 2 pi cutoff / (sample_rate + 2 pi cutoff), with 22 / 7 for M_PI.
Alpha(cutoff, rate) == Frac(44 * cutoff, 7 * rate + 44 * cutoff)

\* The loop of ApplyHighPassFilter from index i (1-based) on: data[i - 1] is
\* read from the vector the loop is writing to.
RECURSIVE HighPassLoop(_, _, _, _)
HighPassLoop(data, alpha, y, i) ==
    IF i > Len(data) THEN data
    ELSE LET y_next == FMul(alpha, FSub(FAdd(y, data[i]), data[i - 1]))
         IN  HighPassLoop([data EXCEPT ![i] = y_next], alpha, y_next, i + 1)

\* ApplyHighPassFilter(data, cutoff, sample_rate): the vector after the call.
ApplyHighPassFilter(data, cutoff, rate) ==
    IF data = << >> THEN data
    ELSE HighPassLoop(data, Alpha(cutoff, rate), data[1], 2)

\* The sum of fabs(data[i]) for i in from..to (1-based).
RECURSIVE SumAbs(_, _, _)
SumAbs(data, from, to) ==
    IF from > to THEN <<0, 1>> ELSE FAdd(FAbs(data[from]), SumAbs(data, from + 1, to))

\* Mutant of InsufficientWindow.
InsufficientWindow_Strict(n_samples_last, n_samples) == n_samples_last > n_samples

\* Detect: the test that returns the default result.
InsufficientWindow(n_samples_last, n_samples) == n_samples_last >= n_samples

\* The number of samples in the window.
SamplesLast(cfg) == (cfg.sample_rate * cfg.window_ms) \div 1000

\* The copy Detect computes the energies of.
FilteredSamples(input, cfg) ==
    LET copy == [i \in DOMAIN input |-> <<input[i], 1>>]
    IN  IF cfg.freq_threshold > 0
        THEN ApplyHighPassFilter(copy, cfg.freq_threshold, cfg.sample_rate)
        ELSE copy

\* SimpleVad::Detect(samples), samples being input, under configuration cfg: the VadResult.
Detect(input, cfg) ==
    LET n_samples == Len(input)
        n_samples_last == SamplesLast(cfg)
    IN  IF InsufficientWindow(n_samples_last, n_samples) THEN DefaultVadResult
        ELSE LET filtered_samples == FilteredSamples(input, cfg)
                 energy_all == FDivInt(SumAbs(filtered_samples, 1, n_samples), n_samples)
                 energy_last == FDivInt(SumAbs(filtered_samples,
                                               n_samples - n_samples_last + 1, n_samples),
                                        n_samples_last)
             IN  [speech_ended |-> LessEq(energy_last, FMul(cfg.energy_threshold, energy_all)),
                  energy_all |-> energy_all,
                  energy_last |-> energy_last]

VadObs(op) ==
    /\ last_op' = op
    /\ ret' = "void"
    /\ emitted' = << >>
    /\ UNCHANGED <<tick, capture_open>>
    /\ enq' = 0
    /\ UNCHANGED <<next_id, last_taken>>
    /\ UNCHANGED <<orch_vars, thread_vars, disp_vars, reg_vars, cap_vars, time_vars, nlu_vars>>

\* SimpleVad::SetConfig(config).
Vad_SetConfig(cfg) ==
    /\ vad_config' = cfg
    /\ UNCHANGED <<vad_input, vad_result>>
    /\ VadObs("SetConfig")

\* SimpleVad::Detect(samples) on the caller's vector: the argument is a
\* reference to const, and the filter works on a copy.
Vad_Detect ==
    /\ vad_result' = Detect(vad_input, vad_config)
    /\ UNCHANGED <<vad_config, vad_input>>
    /\ VadObs("Detect")

\* The amplitudes of the samples.
Amplitudes == {-2, 0, 1}

\* The vectors Detect is called with.
VadInputs == UNION {[1..n -> Amplitudes] : n \in 0..MaxSamples}

\* The configurations of the detector: a rate of 1000 samples per second,
\* windows of 0 to MaxDuration milliseconds, the filter off or at 100 Hz.
VadConfigs ==
    {[window_ms |-> w, energy_threshold |-> t, freq_threshold |-> f, sample_rate |-> 1000] :
        w \in 0..MaxDuration, t \in {<<3, 5>>, <<1, 2>>}, f \in {0, 100}}

VadInit ==
    /\ OrchInit({"qt"}) /\ DispIdle /\ RegIdle /\ CapIdle({"sdl"}) /\ NluIdle
    /\ vad_config = DefaultVadConfig
    /\ vad_input \in VadInputs
    /\ vad_result = DefaultVadResult

VadNext ==
    \/ \E cfg \in VadConfigs : Vad_SetConfig(cfg)
    \/ Vad_Detect

VadSpec == VadInit /\ [][VadNext]_vars

\* The sum of the absolute amplitudes of samples[from..to].
RECURSIVE SumAbsInt(_, _, _)
SumAbsInt(input, from, to) ==
    IF from > to THEN 0 ELSE Abs(input[from]) + SumAbsInt(input, from + 1, to)

\* mean |x| over the last n_last of the input <= threshold * mean |x| over the
\* input, for 1 <= n_last < Len(input).
RawRule(input, cfg) ==
    LET n == Len(input)
        n_last == SamplesLast(cfg)
    IN  SumAbsInt(input, n - n_last + 1, n) * cfg.energy_threshold[2] * n
            <= cfg.energy_threshold[1] * SumAbsInt(input, 1, n) * n_last

\* The same rule over the filtered copy of the input.
FilteredRule(input, cfg) ==
    LET n == Len(input)
        n_last == SamplesLast(cfg)
        filtered == FilteredSamples(input, cfg)
        sum_last == SumAbs(filtered, n - n_last + 1, n)
        sum_all == SumAbs(filtered, 1, n)
    IN  sum_last[1] * sum_all[2] * cfg.energy_threshold[2] * n
            <= cfg.energy_threshold[1] * sum_all[1] * sum_last[2] * n_last

TickIn(s) == last_op' = "OnAudioTimer" /\ listening_state = s

\* C32: in kWakeWord mode the state goes from kListening to kWakeWordActive
\* only on a tick on which the VAD reported that speech ended and GuidedMatch
\* succeeded with best_score >= wake_word_confidence; wakeWordDetected is
\* emitted on exactly those ticks; and a tick taken in kListening hands no
\* window to the queue.
C32_WakeWordDetection ==
    [][config.listening_mode = "kWakeWord" =>
          LET detected == /\ TickIn("kListening")
                          /\ tick'.ended
                          /\ tick'.match.success
                          /\ ~Less(tick'.match.best_score, config.wake_word_confidence)
          IN  /\ (listening_state = "kListening" /\ listening_state' = "kWakeWordActive")
                     => detected
              /\ (Positions(emitted', "wakeWordDetected") # {}) <=> detected
              /\ detected => listening_state' = "kWakeWordActive"
              /\ TickIn("kListening") => enq' = 0 /\ audio_queue' = audio_queue]_vars

\* A tick has detected the wake word with a best_score equal to
\* wake_word_confidence.
C32_Witness ==
    /\ config.listening_mode = "kWakeWord"
    /\ last_op = "OnAudioTimer"
    /\ listening_state = "kWakeWordActive"
    /\ Positions(emitted, "wakeWordDetected") # {}
    /\ tick.match.best_score = config.wake_word_confidence

\* C33: in kWakeWord mode a window is handed to the queue only by a tick
\* taken in kWakeWordActive whose elapsed time has not exceeded the timeout,
\* and that tick returns the state to kListening; a tick whose elapsed time
\* exceeds the timeout returns to kListening, hands nothing to the queue and
\* emits no speechDetected.
C33_OneWindowPerWakeWord ==
    [][config.listening_mode = "kWakeWord" =>
          /\ (enq' # 0 \/ Len(audio_queue') > Len(audio_queue))
                 => /\ TickIn("kWakeWordActive")
                    /\ tick'.elapsed <= WakeWordTimeout
                    /\ listening_state' = "kListening"
          /\ (TickIn("kWakeWordActive") /\ tick'.elapsed > WakeWordTimeout)
                 => /\ listening_state' = "kListening"
                    /\ enq' = 0
                    /\ audio_queue' = audio_queue
                    /\ Positions(emitted', "speechDetected") = {}]_vars

\* A command window has been queued after a wake word, at the last moment
\* before the timeout.
C33_Witness ==
    /\ config.listening_mode = "kWakeWord"
    /\ last_op = "OnAudioTimer"
    /\ enq # 0
    /\ enq \in Windows(audio_queue)
    /\ tick.elapsed = WakeWordTimeout
    /\ listening_state = "kListening"

(***************************************************************************)
(* The Qt assistant from a successful Init on, started and stopped, with   *)
(* its timer and its worker.                                               *)
(***************************************************************************)
RunInit ==
    /\ surface = "qt"
    /\ config \in Configs("qt")
    /\ initialized = TRUE
    /\ running = FALSE
    /\ nlu_engine = TRUE
    /\ strategy = "none"
    /\ has_parameterized = FALSE
    /\ audio_running = FALSE
    /\ timer_active = FALSE
    /\ listening_state = "kIdle"
    /\ wake_elapsed = 0
    /\ audio_queue = << >>
    /\ main_pc = "idle"
    /\ main_call = "none"
    /\ worker_pc = "none"
    /\ worker_item = 0
    /\ audio_pc = "none"
    /\ strategy_destroyed = FALSE
    /\ next_id = 1
    /\ last_taken = 0
    /\ last_op = "Init"
    /\ ret = "true"
    /\ emitted = << >>
    /\ enq = 0
    /\ tick = NoTick
    /\ capture_open = FALSE
    /\ DispIdle /\ RegIdle /\ CapIdle({"sdl"}) /\ NluIdle /\ VadIdle

RunNext ==
    \/ \E ok \in BOOLEAN : Start(ok)
    \/ Stop
    \/ Stop_Notify
    \/ Stop_Join
    \/ startCapture
    \/ stopCapture
    \/ \E ended \in BOOLEAN, d \in 1..2 : OnAudioTimer(ended, d)
    \/ \E match \in GuidedMatchResults : OnAudioTimer_WakeMatch(match)
    \/ Worker_Top
    \/ Worker_Wait
    \/ Worker_Block
    \/ Worker_SpuriousWake
    \/ Worker_Recognize
    \/ \E r \in RecognitionResults : Worker_AsrDone(r)
    \/ \E result \in CommandResult : Worker_DispatchDone(result)

RunSpec == RunInit /\ [][RunNext]_vars

\* The scheduler runs the worker whenever it can take a step, every
\* recognition and handler call returns, and a call that blocks the
\* controlling thread goes on once it can.
WorkerFairness ==
    /\ WF_vars(Stop_Notify)
    /\ WF_vars(Stop_Join)
    /\ WF_vars(\E match \in GuidedMatchResults : OnAudioTimer_WakeMatch(match))
    /\ WF_vars(Worker_Top)
    /\ WF_vars(Worker_Wait)
    /\ WF_vars(Worker_Block)
    /\ WF_vars(Worker_Recognize)
    /\ WF_vars(\E r \in RecognitionResults : Worker_AsrDone(r))
    /\ WF_vars(\E result \in CommandResult : Worker_DispatchDone(result))

WorkerFairSpec == RunSpec /\ WorkerFairness

\* The event loop keeps delivering the timer's timeouts while the timer is
\* active and the controlling thread is not inside a call.
TimerFairness == WF_vars(\E ended \in BOOLEAN, d \in 1..2 : OnAudioTimer(ended, d))

TimerFairSpec == RunSpec /\ WorkerFairness /\ TimerFairness

\* C34: while the assistant keeps running in kWakeWord mode and the timer
\* keeps ticking, a state kWakeWordActive is followed by kListening, through
\* command speech or through the timeout.
C34_WakeWordActiveEnds ==
    (running /\ config.listening_mode = "kWakeWord" /\ listening_state = "kWakeWordActive")
        ~> (listening_state = "kListening" \/ ~running)

\* A tick has found the timeout exceeded and returned to kListening.
C34_Witness ==
    /\ running
    /\ config.listening_mode = "kWakeWord"
    /\ last_op = "OnAudioTimer"
    /\ tick.elapsed > WakeWordTimeout
    /\ Positions(emitted, "listeningStateChanged") # {}
    /\ listening_state = "kListening"

\* ProcessAudio has returned for window w, the last one dequeued.
Processed(w) == last_taken = w /\ worker_item = 0

\* C36: while the assistant stays running, every window accepted into the
\* audio queue is eventually dequeued by the worker and run through
\* ProcessAudio, given that every recognition and handler call returns and
\* that the worker is scheduled fairly.
C36_AcceptedWindowsProcessed ==
    \A w \in 1..MaxWindows :
        (running /\ w \in Windows(audio_queue)) ~> (Processed(w) \/ ~running)

\* A second window has gone through ProcessAudio and its command has been
\* dispatched.
C36_Witness ==
    /\ running
    /\ last_op = "Worker"
    /\ Processed(2)
    /\ Positions(emitted, "commandExecuted") # {}

\* The listening states of a running assistant in each mode.
StatesOf(mode) ==
    CASE mode = "kContinuous" -> {"kListening"}
      [] mode = "kWakeWord" -> {"kListening", "kWakeWordActive"}
      [] mode = "kPushToTalk" -> {"kIdle", "kCapturing"}

C37_CaptureSignalsAlternate ==
    [][/\ Positions(emitted', "captureStarted") # {} => ~capture_open
       /\ Positions(emitted', "captureEnded") # {} => capture_open]_vars

\* C38: the strategy object on which the worker is executing Recognize is
\* never destroyed while the call is in progress, and strategy_ is non-null
\* whenever running_ is true.
C38_StrategyOutlivesRecognize ==
    /\ InRecognize => ~strategy_destroyed
    /\ running => strategy # "none"

(***************************************************************************)
(* Dispatch on one thread (the worker in ProcessAudio) while another       *)
(* registers and unregisters commands.  Dispatch is called with a context  *)
(* that holds no parameter.                                                *)
(***************************************************************************)
ConcObs(op) ==
    /\ last_op' = op
    /\ ret' = "void"
    /\ emitted' = << >>
    /\ enq' = 0
    /\ UNCHANGED <<tick, capture_open, next_id, last_taken>>
    /\ UNCHANGED <<orch_vars, thread_vars, reg_vars, cap_vars, time_vars, nlu_vars, vad_vars>>
    /\ UNCHANGED <<commands, dispatch_pc, dispatch_name, dispatch_context>>

\* Dispatch, line 31: FindCommand returns it->second.command.get() and
\* releases the shared lock; nullptr ends the call with kFailure.
Dispatch_FindCommand(command_name) ==
    /\ dispatch_locals.pc = "idle"
    /\ IF FindCommand(command_name)
       THEN /\ dispatch_locals' = DispatchLocals("found_command", command_name,
                                                 entry_node[command_name], 0)
            /\ UNCHANGED dispatch_result
       ELSE /\ dispatch_locals' = DispatchLocals("returned", command_name, 0, 0)
            /\ dispatch_result' = "kFailure"
    /\ UNCHANGED <<executed, handler_context, handler_returned>>
    /\ ConcObs("Dispatch")

\* Dispatch, line 37: FindDescriptor looks the name up again.
Dispatch_FindDescriptor ==
    /\ dispatch_locals.pc = "found_command"
    /\ IF FindCommand(dispatch_locals.command_name)
       THEN /\ dispatch_locals' = [dispatch_locals EXCEPT
                                      !.pc = "found_descriptor",
                                      !.descriptor = entry_node[dispatch_locals.command_name]]
            /\ UNCHANGED dispatch_result
       ELSE /\ dispatch_locals' = [dispatch_locals EXCEPT !.pc = "returned"]
            /\ dispatch_result' = "kFailure"
    /\ UNCHANGED <<executed, handler_context, handler_returned>>
    /\ ConcObs("Dispatch")

\* Dispatch, lines 43-48: command->Execute is called when the validation
\* passed.
Execute_Called(valid, command) == valid

\* Dispatch, lines 43-50: ValidateAndFillDefaults reads *descriptor and
\* command->Execute is called through the pointer of line 31.  read: what
\* the read through descriptor delivers, the descriptor in a live node and
\* anything in an erased one.
Dispatch_Execute(read, handler_result) ==
    /\ dispatch_locals.pc = "found_descriptor"
    /\ dispatch_locals.descriptor \in LiveNodes
           => read = NodeDescriptor(dispatch_locals.descriptor)
    /\ LET v == ValidateAndFillDefaults(read, << >>)
       IN  IF Execute_Called(v.ok, dispatch_locals.command)
           THEN /\ executed' = executed + 1
                /\ handler_context' = v.params
                /\ handler_returned' = handler_result
                /\ dispatch_result' = handler_result
                /\ dispatch_locals' = [dispatch_locals EXCEPT !.pc = "executed"]
           ELSE /\ dispatch_result' = "kInvalidParams"
                /\ dispatch_locals' = [dispatch_locals EXCEPT !.pc = "returned"]
                /\ UNCHANGED <<executed, handler_context, handler_returned>>
    /\ ConcObs("Dispatch")

\* Dispatch returns to ProcessAudio.
Dispatch_Return ==
    /\ dispatch_locals.pc \in {"executed", "returned"}
    /\ executed < MaxEntries
    /\ dispatch_locals' = NoDispatch
    /\ UNCHANGED <<dispatch_result, executed, handler_context, handler_returned>>
    /\ ConcObs("ProcessAudio")

ConcurrentInit ==
    OrchInit({"qt"}) /\ DispIdle /\ RegIdle /\ CapIdle({"sdl"}) /\ NluIdle /\ VadIdle

ConcurrentNext ==
    \/ \E descriptor \in RegistryDescriptors, command \in Handlers :
          Register(descriptor, command)
    \/ \E name \in RegistryNames : Unregister(name)
    \/ \E command_name \in RegistryNames : Dispatch_FindCommand(command_name)
    \/ Dispatch_FindDescriptor
    \/ \E read \in RegistryDescriptors \cup {Garbage}, handler_result \in CommandResult :
          Dispatch_Execute(read, handler_result)
    \/ Dispatch_Return

ConcurrentSpec == ConcurrentInit /\ [][ConcurrentNext]_vars

\* C39: Dispatch never executes a handler whose registry entry has been
\* removed: when Execute is called, the entry FindCommand returned the
\* command of is still in the registry.
C39_NoExecuteAfterUnregister ==
    [][executed' # executed => dispatch_locals.command \in LiveNodes]_vars

\* The last call is a Process or ProcessText that accepted an intent whose
\* trigger is not a substring of the normalised transcript.
WordMatchTaken ==
    /\ last_op \in {"Process", "ProcessText"}
    /\ nlu_transcript # << >>
    /\ nlu_schemas # << >>
    /\ ~Process_Rejected(intent_match, min_confidence)
    /\ Find(Normalize(nlu_transcript), Normalize(intent_match.matched_trigger)) = -1

\* The argument region as stated: the words after the first window with the
\* highest exact-match fraction when that is at least 0.5, the normalised
\* transcript otherwise; with more trigger words than transcript words the
\* one window starts at the first word.
StatedRegion(transcript, matched_trigger) ==
    LET transcript_words == Words(Normalize(transcript))
        trigger_words == Words(Normalize(matched_trigger))
        last_start == IF Len(transcript_words) > Len(trigger_words)
                      THEN Len(transcript_words) - Len(trigger_words) ELSE 0
        Score(start) == MatchScore(transcript_words, trigger_words, start)
        best_start == CHOOSE s \in 0..last_start :
                          \A t \in 0..last_start :
                              Less(Score(t), Score(s)) \/ (~Less(Score(s), Score(t)) /\ s <= t)
    IN  IF ~Less(Score(best_start), <<1, 2>>)
        THEN JoinWords(transcript_words, best_start + Len(trigger_words) + 1)
        ELSE Normalize(transcript)

\* C40: the extraction of the argument region ends with a result for every
\* transcript and matched trigger: when the trigger is not a substring of the
\* transcript the call returns, and the parameters are those of the words
\* after the best window when its exact-match fraction is at least 0.5 and
\* of the whole normalised transcript otherwise, also when the trigger has
\* more words than the transcript.
C40_ExtractionTerminates ==
    WordMatchTaken
    => /\ nlu_pc = "returned"
       /\ nlu_result.success
       /\ LET descriptor == CHOOSE d \in {nlu_schemas[k] : k \in DOMAIN nlu_schemas} :
                                d.name = intent_match.descriptor
          IN  nlu_result.extracted_params =
                  ExtractParams(StatedRegion(nlu_transcript, intent_match.matched_trigger),
                                descriptor)

\* C40 on the transcripts with at least as many words as the trigger.
C40_ExtractionTerminates_EnoughWords ==
    Len(Words(Normalize(nlu_transcript))) >= Len(Words(Normalize(intent_match.matched_trigger)))
    => C40_ExtractionTerminates

\* 'zoom ta 5' was matched to 'zoom to' word by word and gave level = 5.
C40_EnoughWords_Reached ==
    /\ WordMatchTaken
    /\ nlu_pc = "returned"
    /\ nlu_transcript = <<"z", "o", "o", "m", " ", "t", "a", " ", "5">>
    /\ nlu_result.extracted_params = [level |-> <<"5">>]

====
